---- MODULE Spec2Model ----
(***************************************************************************)
(* Verification model of the accessibility test framework (Wswzc/A11y).    *)
(*                                                                         *)
(*  - SpecCL   : AsyncUtils.concurrentLimit on a list of abstract tasks    *)
(*  - Spec     : one TestEngine.runTestSuite call (setup, scanning,        *)
(*               reporting, cleanup) on a fresh engine, every external     *)
(*               operation free to fail; for page concurrency > 1 the      *)
(*               page tasks run through the same concurrentLimit loop      *)
(*  - SpecRuns : several runTestSuite calls, overlapping or successive,    *)
(*               on one engine                                             *)
(*  - SpecCheck: CheckerManager: addChecker and one runAllChecks call,     *)
(*               sequential or through concurrentLimit                     *)
(*  - SpecRetry: AsyncUtils.retry on an operation that fails a number of   *)
(*               times before it succeeds                                  *)
(*  - SpecTimeout: AsyncUtils.withTimeout on an operation that settles at  *)
(*               some time or never                                        *)
(*  - SpecClose: AppManager.closeApp, graceful close raced against the     *)
(*               timer, then the forced termination                        *)
(*  - SpecReports: ReportManager.generateAllReports                        *)
(*  - SpecStop : one runTestSuite call and one TestEngine.stop call        *)
(*  - SpecShots: one runTestSuite call on pages with focus problems        *)
(*  - SpecTree : AccessibilityTreeChecker landmark score and heading order *)
(*  - SpecZoom : ZoomChecker.executeCheck over configured zoom levels      *)
(*  - SpecAxe  : AxeScanner.scanPage called by runAxeScan and by the       *)
(*               contrast checker on one page                              *)
(*                                                                         *)
(* JavaScript runs one job at a time: an action is the synchronous code    *)
(* between two suspension points (await) of one async function.            *)
(***************************************************************************)
EXTENDS Integers, Sequences, FiniteSets, TLC

\* ---------------------------------------------------------------- bounds
MaxTasks == 3
MaxLimit == 3
MaxPages == 2
MaxConcurrency == 2
MaxCalls == 3
MaxCheckers == 3
MaxAdded == 1
MaxAttempts == 3
MaxTime == 3
MaxFormats == 3
MaxExtra == 1
MaxHeadings == 3
HeadingLevels == 1..6
CloseTimeout == 2
BaseDelays == {1, 3}
BackoffFactors == {1, 2}
MaxDelays == {4}
Priorities == {1, 2}
Values == {7, 8}

\* ------------------------------------------------------------- variables
VARIABLES
  \* AsyncUtils.concurrentLimit(tasks, concurrency)
  clPc,         \* position of the concurrentLimit call
  tasks,        \* the task list: records [ok, val]
  concurrency,  \* the (reassigned) concurrency parameter
  nextIdx,      \* index of the next task the for-loop will take
  tStatus,      \* per task: "none","created","running","resolved","rejected"
  executing,    \* the `executing` Set (task indices stand for promises)
  raceSet,      \* promises handed to the pending Promise.race
  raceState,    \* "none","pending","resolved","rejected"
  results,      \* the `results` array (promises, in push order)
  settleOrder,  \* task indices in the order they settled
  clReturn      \* value concurrentLimit resolved with

clVars == <<clPc, tasks, concurrency, nextIdx, tStatus, executing, raceSet,
            raceState, results, settleOrder, clReturn>>

VARIABLES
  \* configuration and environment of one TestEngine instance
  nPages,       \* config.getPagesToScan().length
  cfgValid,     \* exePath, reportDir and processName are all set
  exeExists,    \* fs.existsSync(config.exePath)
  callBudget,   \* number of runTestSuite calls the caller makes
  faults,       \* kinds of failure the environment may produce
  \* TestEngine
  isRunning,    \* this.isRunning
  axeResults,   \* this.testResults.axeResults
  extraResults, \* this.testResults.extraResults
  errors,       \* this.testResults.errors
  warnings,     \* this.testResults.warnings
  \* AppManager
  electronApp,  \* this.electronApp !== null
  mainWindow,   \* this.mainWindow !== null
  \* one entry per runTestSuite call
  rpc,          \* position of the call
  ropt,         \* its options {concurrency, continueOnError}
  rret,         \* the object it resolved with, as it was on return
  rClosed,      \* closeApp has been invoked on behalf of the call
  \* scanning phase
  pagePc,       \* per page: position of processPage
  navOk,        \* pages whose navigateToPage returned normally
  seqIdx,       \* index of the page of the sequential for-loop
  currentPage   \* page the shared window shows (0: the start view)

cfgVars == <<nPages, cfgValid, exeExists, callBudget, faults>>
resVars == <<axeResults, extraResults, errors, warnings>>
appVars == <<electronApp, mainWindow>>
runVars == <<rpc, ropt, rret, rClosed>>
scanVars == <<pagePc, navOk, seqIdx, currentPage>>
engVars == <<cfgVars, isRunning, resVars, appVars, runVars, scanVars>>

VARIABLES
  \* CheckerManager
  checkers,       \* this.checkers: records [id, priority, enabled, added]
  maxConcurrency, \* this.config.maxConcurrency (0: not configured)
  ckPc,           \* position of runAllChecks
  ckIdx,          \* index of the checker of the sequential for-loop
  ckOut,          \* per sorted checker: what runSingleCheck resolved with
  ckResults       \* the `results` object of runAllChecks

ckVars == <<checkers, maxConcurrency, ckPc, ckIdx, ckOut, ckResults>>

VARIABLES
  \* AsyncUtils.retry(fn, options)
  rtPc,         \* position of the retry call
  rtOptions,    \* maxAttempts, baseDelay, maxDelay, backoffFactor
  rtFn,         \* fn fails `failures` times, then succeeds; the errors for
                \* which retryCondition returns false are `fatal`
  attempt,      \* the loop variable
  calls,        \* number of invocations of fn so far
  waits,        \* the delays waited so far, in order
  lastError,    \* lastError (0: undefined; n: the error of invocation n)
  rtResult      \* what retry settled with

rtVars == <<rtPc, rtOptions, rtFn, attempt, calls, waits, lastError, rtResult>>

VARIABLES
  \* AsyncUtils.withTimeout(promise, timeoutMs, timeoutMessage)
  wtPc,           \* position of the withTimeout call
  wtPromise,      \* the operation: its own outcome [kind, val] and the time
                  \* `at` at which it settles (-1: it never settles)
  timeoutMs,      \* the timeoutMs parameter
  timeoutMessage, \* the timeoutMessage parameter
  now,            \* time elapsed since the call
  wtEvents,       \* "promise" and "timer" in the order they settled
  wtResult        \* what the promise withTimeout returned settled with

wtVars == <<wtPc, wtPromise, timeoutMs, timeoutMessage, now, wtEvents,
            wtResult>>

VARIABLES
  \* calls of external primitives made so far
  launchCalls     \* number of electron.launch calls

exVars == <<launchCalls>>

VARIABLES
  \* ReportManager.generateAllReports(data, options)
  raPc,           \* position of the generateAllReports call
  gen,            \* per requested format: state of its generateReport call,
                  \* "none", "running", "ok" (success) or "failed"
  raResult        \* results.summary and results.success

raVars == <<raPc, gen, raResult>>

VARIABLES
  \* AppManager.closeApp()
  caPc,           \* position of the closeApp call
  closeCalls,     \* number of electronApp.close() calls
  forced          \* the taskkill attempt: "none", "ok" or "failed"

caVars == <<caPc, closeCalls, forced>>

VARIABLES
  \* TestEngine.stop()
  stPc            \* position of the stop call

stVars == <<stPc>>

VARIABLES
  \* TestEngine
  screenshots     \* this.testResults.screenshots

shotVars == <<screenshots>>

VARIABLES
  \* AccessibilityTreeChecker
  trPc,           \* "landmarks": checkLandmarks is to run; "headings":
                  \* checkHeadingOrder is to run; "done"
  landmarks,      \* extractLandmarks(axTree): records [role, named, children]
  headings,       \* the levels of extractHeadings(axTree), in document order
  lmResult,       \* what checkLandmarks returned: missing, issues, score
  orderIssues     \* what checkHeadingOrder returned: records [index, from, to]

trVars == <<trPc, landmarks, headings, lmResult, orderIssues>>

VARIABLES
  \* ZoomChecker (zoom factors are written in percent: 2.0 is 200)
  zmPc,           \* "off"; "call": executeCheck is to be called; "loop",
                  \* "measure", "reset", "catch": inside testZoomLevel;
                  \* "done": executeCheck has returned
  zoomLevels,     \* options.zoomLevels
  maxZoom,        \* options.maxZoom
  zmIdx,          \* position of the for loop in zoomLevels
  pageZoom,       \* document.body.style.zoom of the page; 0 is ''
  zmCur,          \* overflow and layoutBroken of the level under test
  resetFailed,    \* the last reset of the zoom in the catch block threw
  zoomTests,      \* results.zoomTests
  recommendedZoomSupport   \* results.summary.recommendedZoomSupport

zmVars == <<zmPc, zoomLevels, maxZoom, zmIdx, pageZoom, zmCur, resetFailed,
            zoomTests, recommendedZoomSupport>>

VARIABLES
  \* JsonReporter
  extraStats      \* jsonData.summary.extraStats of the last JSON report

jsVars == <<extraStats>>

VARIABLES
  \* AxeScanner instances over one page (core/axeScanner.js)
  axPc,           \* "off"; "idle"; "inject": scanPage is in ensureAxeInjected;
                  \* "run": in withTimeout(axe.run); "returned": scanPage
                  \* has returned to its caller
  axWho,          \* the scanner inside scanPage: "primary" is the engine's
                  \* AxeScanner, "contrast" the ColorContrastChecker's
  windowAxe,      \* window.axe is defined in the page context
  injections,     \* script elements with the engine source appended to
                  \* the current page context
  axeInjected,    \* this.axeInjected of each AxeScanner instance
  runSettled,     \* how axe.run of the last scanPage settled
  scanResult,     \* what the last scanPage returned
  legacyInvoked,  \* runAxeScan called legacyScanner.scanPage after it
  contrastResult, \* what BaseChecker.run of the contrast checker returned
  scans           \* scanPage calls made so far

axVars == <<axPc, axWho, windowAxe, injections, axeInjected, runSettled,
            scanResult, legacyInvoked, contrastResult, scans>>

extVars == <<zmVars, jsVars, axVars>>

auxVars == <<wtVars, exVars, raVars, caVars, stVars, shotVars, trVars, extVars>>

utilVars == <<ckVars, rtVars, auxVars>>

vars == <<clVars, engVars, utilVars>>

\* ------------------------------------------------------------- helpers
Range(s) == {s[k] : k \in 1..Len(s)}

TaskIds == 1..Len(tasks)

Settled(i) == tStatus[i] \in {"resolved", "rejected"}

\* if (concurrency <= 0) concurrency = 1;
NormalizeConcurrency(c) == IF c <= 0 THEN 1 ELSE c

\* if (executing.size >= concurrency) await Promise.race(executing)
MustAwait_Mut(size, c) == size > c
MustAwait(size, c) == size >= c

\* const cleanUp = () => executing.delete(promise)
CleanUp(set, i) == set \ {i}

\* Promise.all(results): slot k holds the value of the k-th promise pushed,
\* whatever the order `order` in which the promises settled
PromiseAll_Mut(res, order, tsk) == [k \in 1..Len(res) |-> tsk[order[k]].val]
PromiseAll(res, order, tsk) == [k \in 1..Len(res) |-> tsk[res[k]].val]

\* ------------------------------------------------- concurrentLimit steps
\* entry of concurrentLimit: empty list returns [], concurrency normalised
CLEnter ==
  /\ clPc = "call"
  /\ IF Len(tasks) = 0
       THEN /\ clPc' = "done"
            /\ clReturn' = << >>
            /\ UNCHANGED concurrency
       ELSE /\ clPc' = "loop"
            /\ concurrency' = NormalizeConcurrency(concurrency)
            /\ UNCHANGED clReturn
  /\ UNCHANGED <<tasks, nextIdx, tStatus, executing, raceSet, raceState,
                 results, settleOrder>>

\* Promise.resolve().then(() => wrappedTask()): the bodies of the promises
\* created so far are invoked, in creation order, by the jobs that run as
\* soon as concurrentLimit suspends, before any timer or I/O completes
InvokeCreated(st) ==
  [i \in DOMAIN st |-> IF st[i] = "created" THEN "running" ELSE st[i]]

\* one iteration of `for (const taskFn of tasks)` up to its await, or the
\* loop exit into `return Promise.all(results)`
CLLoop ==
  /\ clPc = "loop"
  /\ IF nextIdx <= Len(tasks)
       THEN LET i == nextIdx
                ex == executing \cup {i}
                st == [tStatus EXCEPT ![i] = "created"]
            IN /\ results' = Append(results, i)
               /\ executing' = ex
               /\ nextIdx' = nextIdx + 1
               /\ IF MustAwait(Cardinality(ex), concurrency)
                    THEN /\ clPc' = "race"
                         /\ raceSet' = ex
                         /\ raceState' = "pending"
                         /\ tStatus' = InvokeCreated(st)
                    ELSE /\ tStatus' = st
                         /\ UNCHANGED <<clPc, raceSet, raceState>>
       ELSE /\ clPc' = "all"
            /\ tStatus' = InvokeCreated(tStatus)
            /\ UNCHANGED <<results, executing, nextIdx, raceSet, raceState>>
  /\ UNCHANGED <<tasks, concurrency, settleOrder, clReturn>>

\* the task's promise settles; its cleanUp reaction was registered before
\* the race's, so the promise has left `executing` when the race continues
SettlePromise(i, ok) ==
  /\ clPc \in {"race", "all", "rejected"}
  /\ tStatus[i] = "running"
  /\ tStatus' = [tStatus EXCEPT ![i] = IF ok THEN "resolved" ELSE "rejected"]
  /\ executing' = CleanUp(executing, i)
  /\ raceState' = IF clPc = "race" /\ raceState = "pending" /\ i \in raceSet
                    THEN (IF ok THEN "resolved" ELSE "rejected")
                    ELSE raceState
  /\ UNCHANGED <<clPc, tasks, concurrency, nextIdx, raceSet, results,
                 clReturn>>

\* the settlement of a task, logged in the order of settlement
SettleTask(i, ok) ==
  /\ SettlePromise(i, ok)
  /\ settleOrder' = Append(settleOrder, i)

\* continuation of `await Promise.race(executing)`
CLResume ==
  /\ clPc = "race"
  /\ raceState \in {"resolved", "rejected"}
  /\ clPc' = IF raceState = "resolved" THEN "loop" ELSE "rejected"
  /\ raceState' = "none"
  /\ raceSet' = {}
  /\ UNCHANGED <<tasks, concurrency, nextIdx, tStatus, executing, results,
                 settleOrder, clReturn>>

\* Promise.all(results) settles: rejected by the first rejected promise,
\* fulfilled when every promise is fulfilled
CLAll ==
  /\ clPc = "all"
  /\ \/ \E k \in 1..Len(results) : tStatus[results[k]] = "rejected"
     \/ \A k \in 1..Len(results) : tStatus[results[k]] = "resolved"
  /\ IF \E k \in 1..Len(results) : tStatus[results[k]] = "rejected"
       THEN /\ clPc' = "rejected"
            /\ UNCHANGED clReturn
       ELSE /\ clPc' = "done"
            /\ clReturn' = PromiseAll(results, settleOrder, tasks)
  /\ UNCHANGED <<tasks, concurrency, nextIdx, tStatus, executing, raceSet,
                 raceState, results, settleOrder>>

\* -------------------------------------------------------------- TestEngine
Runs == 1..MaxCalls
Pages == 1..nPages

\* a runTestSuite call that has passed the guard and has not settled
Active(r) == rpc[r] \notin {"none", "resolved", "rejected"}

\* errorInfo = { phase, message, stack, timestamp, ...context }; page 0
\* stands for a record without page context
ErrorRecord(phase, page) == [phase |-> phase, page |-> page]

\* logError(phase, error, context): this.testResults.errors.push(errorInfo)
logError(errs, phase, page) == Append(errs, ErrorRecord(phase, page))

\* catch block of runTestSuite: errors.push({ phase: 'unknown', ... })
SuiteCatch(errs) == Append(errs, ErrorRecord("unknown", 0))

NoResult == [success |-> FALSE, axeResults |-> << >>, extraResults |-> << >>,
             errors |-> << >>, warnings |-> << >>]

\* return { ...this.testResults }
Snapshot(ok) == [success |-> ok, axeResults |-> axeResults,
                 extraResults |-> extraResults, errors |-> errors,
                 warnings |-> warnings]

\* if (this.isRunning) throw new Error('Test suite is already running')
RunGuard_Mut(running) == FALSE
RunGuard(running) == running

\* this.testResults.success = this.testResults.errors.length === 0
SuccessOf_Mut(errs) == TRUE
SuccessOf(errs) == Len(errs) = 0

\* closeApp: this.electronApp = null (in every branch that had an app)
HandleAfterClose_Mut(app) == app
HandleAfterClose(app) == FALSE

\* if (concurrency === 1) sequential for-loop, else concurrentLimit
SequentialMode(c) == c = 1

\* processPage: an exception of navigateToPage skips scan and extra checks
AfterNavigate_Mut(ok) == "scan"
AfterNavigate(ok) == IF ok THEN "scan" ELSE "failed"

\* pageTasks: processPage(...).catch(error => { logError; return null })
\* makes the page task fulfil whether or not the page failed
PageTaskFulfils_Mut(failed) == ~failed
PageTaskFulfils(failed) == TRUE

\* sequential loop: if (!continueOnError) throw error
SeqAborts(failed, continueOnError) == failed /\ ~continueOnError

\* the failures the environment can produce: electron.launch fails, no
\* main window appears, a navigation click fails, the primary or both
\* scans fail, report generation fails
AllFaults == {"launch", "window", "nav", "scan", "report"}

\* outcomes of an external operation of kind k in the current environment
Outcomes(k, good, bad) == IF k \in faults THEN good \cup bad ELSE good

\* outcomes of an operation on the application or its window: it fails
\* once the application has been closed
WindowOutcomes(k) ==
  IF electronApp THEN Outcomes(k, {TRUE}, {FALSE}) ELSE {FALSE}

\* runTestSuite(options): guard, then this.isRunning = true
Call(r) ==
  /\ r <= callBudget
  /\ rpc[r] = "none"
  /\ r > 1 => rpc[r - 1] # "none"
  /\ IF RunGuard(isRunning)
       THEN /\ rpc' = [rpc EXCEPT ![r] = "rejected"]
            /\ UNCHANGED <<isRunning, ropt>>
       ELSE /\ rpc' = [rpc EXCEPT ![r] = "setup"]
            /\ isRunning' = TRUE
            /\ \E c \in 1..MaxConcurrency, coe \in BOOLEAN, skip \in BOOLEAN :
                 ropt' = [ropt EXCEPT ![r] =
                            [concurrency |-> c, continueOnError |-> coe,
                             skipExtraChecks |-> skip]]
  /\ UNCHANGED <<clVars, cfgVars, resVars, appVars, rret, rClosed, scanVars>>

\* validateConfiguration(): the required fields are set and there is at
\* least one page to scan
ValidateConfiguration == cfgValid /\ nPages > 0

\* electron.launch is reached when validateConfiguration() returned true
\* and launchApp found the executable with fs.existsSync
LaunchReached_Mut(valid, exists) == valid

LaunchReached(valid, exists) == valid /\ exists

\* setupPhase: validateConfiguration, cleanupProcesses, launchApp; a
\* failure is logged as 'setup', rethrown and caught by runTestSuite
SetupPhase(r, launchOk) ==
  /\ rpc[r] = "setup"
  /\ launchCalls' = IF LaunchReached(ValidateConfiguration, exeExists)
                      THEN launchCalls + 1 ELSE launchCalls
  /\ IF LaunchReached(ValidateConfiguration, exeExists) /\ launchOk
       THEN /\ electronApp' = TRUE
            /\ rpc' = [rpc EXCEPT ![r] = "scanning"]
            /\ UNCHANGED errors
       ELSE /\ errors' = SuiteCatch(logError(errors, "setup", 0))
            /\ rpc' = [rpc EXCEPT ![r] = "emergency"]
            /\ UNCHANGED electronApp
  /\ UNCHANGED <<clVars, cfgVars, isRunning, axeResults, extraResults,
                 warnings, mainWindow, ropt, rret, rClosed, scanVars>>

\* scanningPhase up to the first page: getMainWindow, then either the
\* first processPage call of the for-loop or the entry of concurrentLimit
ScanStart(r, windowOk) ==
  /\ rpc[r] = "scanning"
  /\ UNCHANGED <<cfgVars, isRunning, axeResults, extraResults, warnings,
                 electronApp, ropt, rret, rClosed>>
  /\ IF ~windowOk
       THEN /\ errors' = SuiteCatch(logError(errors, "scanning", 0))
            /\ rpc' = [rpc EXCEPT ![r] = "emergency"]
            /\ UNCHANGED <<clVars, mainWindow, scanVars>>
       ELSE /\ mainWindow' = TRUE
            /\ navOk' = {}
            /\ currentPage' = 0
            /\ UNCHANGED errors
            /\ IF SequentialMode(ropt[r].concurrency)
                 THEN /\ rpc' = [rpc EXCEPT ![r] = "seq"]
                      /\ seqIdx' = 1
                      /\ pagePc' = [p \in Pages |->
                                      IF p = 1 THEN "nav" ELSE "none"]
                      /\ UNCHANGED clVars
                 ELSE /\ rpc' = [rpc EXCEPT ![r] = "conc"]
                      /\ seqIdx' = 0
                      /\ pagePc' = [p \in Pages |-> "none"]
                      /\ clPc' = "loop"
                      /\ tasks' = [p \in Pages |-> [ok |-> TRUE, val |-> 7]]
                      /\ concurrency' =
                           NormalizeConcurrency(ropt[r].concurrency)
                      /\ nextIdx' = 1
                      /\ tStatus' = [p \in Pages |-> "none"]
                      /\ executing' = {}
                      /\ raceSet' = {}
                      /\ raceState' = "none"
                      /\ results' = << >>
                      /\ settleOrder' = << >>
                      /\ clReturn' = << >>

\* scanningPhase catch (logError 'scanning', rethrow) followed by the
\* catch block of runTestSuite
ScanFails(r, errs) ==
  /\ errors' = SuiteCatch(logError(errs, "scanning", 0))
  /\ rpc' = [rpc EXCEPT ![r] = "emergency"]

\* what follows the end of processPage for page p: in the for-loop the
\* catch of scanningPhase and the next iteration, under concurrentLimit
\* the .catch of the page task and the settlement of its promise.
\* errs and pcs are errors and pagePc as processPage left them.
FinishPage(r, p, failed, errs, pcs) ==
  LET errs2 == IF failed THEN logError(errs, "page_scan", p) ELSE errs
  IN IF rpc[r] = "seq"
       THEN /\ UNCHANGED clVars
            /\ IF SeqAborts(failed, ropt[r].continueOnError)
                 THEN /\ ScanFails(r, errs2)
                      /\ pagePc' = pcs
                      /\ UNCHANGED seqIdx
                 ELSE /\ errors' = errs2
                      /\ IF p < nPages
                           THEN /\ seqIdx' = p + 1
                                /\ pagePc' = [pcs EXCEPT ![p + 1] = "nav"]
                                /\ UNCHANGED rpc
                           ELSE /\ seqIdx' = p + 1
                                /\ pagePc' = pcs
                                /\ rpc' = [rpc EXCEPT ![r] = "report"]
       ELSE /\ errors' = errs2
            /\ pagePc' = pcs
            /\ SettleTask(p, PageTaskFulfils(failed))
            /\ UNCHANGED <<rpc, seqIdx>>

\* safeClick(window.locator(selector)): a click that went through makes the
\* one shared window show page p, whatever it showed before; a navigation
\* that throws may have failed before or after its click
WindowAfterClick(cur, p, moved) == IF moved THEN p ELSE cur

\* processPage: navigateToPage. On failure navigateToPage records the
\* emergency screenshot (when one was taken) as a warning and rethrows;
\* processPage logs 'page_processing' and rethrows.
NavigatePage(r, p, ok, shot, moved) ==
  /\ rpc[r] \in {"seq", "conc"}
  /\ pagePc[p] = "nav"
  /\ ok => (~shot /\ moved)
  /\ currentPage' = WindowAfterClick(currentPage, p, moved)
  /\ UNCHANGED <<cfgVars, isRunning, axeResults, extraResults, appVars,
                 ropt, rret, rClosed>>
  /\ warnings' = IF shot THEN Append(warnings, p) ELSE warnings
  /\ navOk' = IF ok THEN navOk \cup {p} ELSE navOk
  /\ IF AfterNavigate(ok) = "scan"
       THEN /\ pagePc' = [pagePc EXCEPT ![p] = "scan"]
            /\ UNCHANGED <<clVars, errors, rpc, seqIdx>>
       ELSE FinishPage(r, p, TRUE, logError(errors, "page_processing", p),
                       [pagePc EXCEPT ![p] = "failed"])

\* the object axe.run resolves with: four arrays of rule results
AxeRun ==
  [violations |-> <<"v">>, passes |-> <<"p">>, incomplete |-> << >>,
   inapplicable |-> << >>, error |-> "none"]

\* the empty result shape carrying an error message
EmptyResult(msg) ==
  [violations |-> << >>, passes |-> << >>, incomplete |-> << >>,
   inapplicable |-> << >>, error |-> msg]

\* AxeScanner.scanPage never throws: on any failure its catch block returns
\* the empty result with `error: error.message`
AxeScannerScanPage(ok) ==
  IF ok THEN AxeRun ELSE EmptyResult("primaryError")

\* if (!modernResult || modernResult.error) throw new Error(...)
PrimaryRejected_Mut(modernResult) == TRUE
PrimaryRejected(modernResult) == modernResult.error # "none"

\* the fields runAxeScan adds to (or leaves out of) the object it returns
Tagged(res, usedLegacy, failed) ==
  [violations |-> res.violations, passes |-> res.passes,
   incomplete |-> res.incomplete, inapplicable |-> res.inapplicable,
   error |-> res.error, usedLegacyFallback |-> usedLegacy,
   failedFallback |-> failed]

\* inner catch of runAxeScan: { violations: [], ..., error:
\* legacyError.message, failedFallback: true }
FailedFallbackResult_Mut(legacyMsg) ==
  Tagged(EmptyResult("primaryError"), FALSE, FALSE)
FailedFallbackResult(legacyMsg) == Tagged(EmptyResult(legacyMsg), FALSE, TRUE)

\* runAxeScan(window, pageConfig): the returned object in `result`, the
\* return statement taken in `tag`, and whether legacyScanner.scanPage was
\* called (it throws "legacyError" when it fails)
RunAxeScan(primaryOk, legacyOk) ==
  LET modernResult == AxeScannerScanPage(primaryOk)
  IN IF ~PrimaryRejected(modernResult)
       THEN [result |-> Tagged(modernResult, FALSE, FALSE),
             tag |-> "primary", legacyInvoked |-> FALSE]
       ELSE IF legacyOk
              THEN [result |-> Tagged(AxeRun, TRUE, FALSE),
                    tag |-> "legacy", legacyInvoked |-> TRUE]
              ELSE [result |-> FailedFallbackResult("legacyError"),
                    tag |-> "failedFallback", legacyInvoked |-> TRUE]

\* processPage: axeResult = await runAxeScan(...); axeResults.push.
\* An entry of axeResults is the returned object together with the page it
\* is recorded under and what the call did.
ScanPage(r, p, primaryOk, legacyOk) ==
  /\ rpc[r] \in {"seq", "conc"}
  /\ pagePc[p] = "scan"
  /\ LET out == RunAxeScan(primaryOk, legacyOk)
     IN axeResults' = Append(axeResults,
          [page |-> p, tag |-> out.tag,
           primaryOk |-> primaryOk, legacyInvoked |-> out.legacyInvoked,
           legacyOk |-> out.legacyInvoked /\ legacyOk,
           result |-> out.result])
  /\ pagePc' = [pagePc EXCEPT ![p] = "extra"]
  /\ UNCHANGED <<clVars, cfgVars, isRunning, extraResults, errors, warnings,
                 appVars, runVars, navOk, seqIdx, currentPage>>

\* KeyboardFocusChecker.executeCheck: no problem found, or a problem and,
\* takeScreenshots being on by default, the path of its screenshot
CleanFocus == [problems |-> 0, screenshots |-> << >>]

ProblemFocus(p) == [problems |-> 1, screenshots |-> <<p>>]

\* runAllChecks: { pageName, timestamp, checks: { [checkerName]: result },
\* summary }
RunAllChecksResult(p, focus) ==
  [page |-> p, checks |-> [KeyboardFocusChecker |-> focus]]

\* if (extraResult.keyboardFocus?.problems?.length > 0)
\*   this.testResults.screenshots.push(...screenshots)
CollectScreenshots(list, extraResult) ==
  IF "keyboardFocus" \in DOMAIN extraResult
    THEN (IF extraResult.keyboardFocus.problems > 0
            THEN list \o extraResult.keyboardFocus.screenshots
            ELSE list)
    ELSE list

\* processPage: extraResult = await runExtraChecks(...); extraResults.push;
\* runAllChecks catches every checker failure, so the page completes
ExtraChecksPage(r, p, focus) ==
  /\ rpc[r] \in {"seq", "conc"}
  /\ pagePc[p] = "extra"
  /\ extraResults' = Append(extraResults, RunAllChecksResult(p, focus))
  /\ screenshots' =
       CollectScreenshots(screenshots, RunAllChecksResult(p, focus))
  /\ FinishPage(r, p, FALSE, errors, [pagePc EXCEPT ![p] = "done"])
  /\ UNCHANGED <<cfgVars, isRunning, axeResults, warnings, appVars, ropt,
                 rret, rClosed, navOk, currentPage>>

\* the page tasks of a concurrent scan are started by concurrentLimit
PagesInvoked(st) ==
  [p \in DOMAIN pagePc |->
     IF st[p] = "running" /\ pagePc[p] = "none" THEN "nav" ELSE pagePc[p]]

\* concurrent scan: for-loop of concurrentLimit(pageTasks, concurrency)
ConcLoop(r) ==
  /\ rpc[r] = "conc"
  /\ CLLoop
  /\ pagePc' = PagesInvoked(tStatus')
  /\ UNCHANGED <<cfgVars, isRunning, resVars, appVars, runVars, navOk,
                 seqIdx, currentPage>>

\* concurrent scan: continuation of the await inside concurrentLimit; a
\* rejected race makes concurrentLimit, and so scanningPhase, throw
ConcResume(r) ==
  /\ rpc[r] = "conc"
  /\ CLResume
  /\ IF raceState = "rejected"
       THEN ScanFails(r, errors)
       ELSE UNCHANGED <<errors, rpc>>
  /\ UNCHANGED <<cfgVars, isRunning, axeResults, extraResults, warnings,
                 appVars, ropt, rret, rClosed, scanVars>>

\* concurrent scan: Promise.all settles and scanningPhase returns or throws
ConcAll(r) ==
  /\ rpc[r] = "conc"
  /\ CLAll
  /\ IF clPc' = "rejected"
       THEN ScanFails(r, errors)
       ELSE /\ rpc' = [rpc EXCEPT ![r] = "report"]
            /\ UNCHANGED errors
  /\ UNCHANGED <<cfgVars, isRunning, axeResults, extraResults, warnings,
                 appVars, ropt, rret, rClosed, scanVars>>

\* reportingPhase: generateAllReports succeeded, reported failed formats
\* (a warning), or threw (logError 'reporting', not rethrown)
\* const checkTypes = ['contrast', 'keyboardFocus', 'zoom', 'accessibilityTree']
CheckTypes == {"contrast", "keyboardFocus", "zoom", "accessibilityTree"}

\* the statistics before any JSON report has been prepared
NoExtraStats ==
  [generated |-> FALSE, totalPages |-> 0,
   checks |-> [t \in CheckTypes |->
                 [total |-> 0, successful |-> 0, failed |-> 0, errors |-> 0,
                  successRate |-> 0]]]

\* Math.round(a / b * 100)
RoundPercent(a, b) == (200 * a + b) \div (2 * b)

\* JsonReporter.calculateExtraStats(extraResults); pageResult[checkType] is
\* read from the page result itself
CalculateExtraStats(pageResults) ==
  LET With(t)  == {k \in DOMAIN pageResults : t \in DOMAIN pageResults[k]}
      Errs(t)  == {k \in With(t) : "error" \in DOMAIN pageResults[k][t]}
      Fails(t) == {k \in With(t) \ Errs(t) : ~pageResults[k][t].success}
      Stat(t)  ==
        LET total      == Cardinality(With(t))
            successful == total - Cardinality(Errs(t)) - Cardinality(Fails(t))
        IN  [total |-> total, successful |-> successful,
             failed |-> Cardinality(Fails(t)),
             errors |-> Cardinality(Errs(t)),
             successRate |-> IF total > 0 THEN RoundPercent(successful, total)
                                          ELSE 0]
  IN  [generated |-> TRUE, totalPages |-> Len(pageResults),
       checks |-> [t \in CheckTypes |-> Stat(t)]]

ReportingPhase(r, outcome) ==
  /\ rpc[r] = "report"
  /\ extraStats' = IF outcome = "ok" THEN CalculateExtraStats(extraResults)
                                     ELSE extraStats
  /\ warnings' = IF outcome = "failed" THEN Append(warnings, 0) ELSE warnings
  /\ errors' = IF outcome = "threw" THEN logError(errors, "reporting", 0)
                                    ELSE errors
  /\ rpc' = [rpc EXCEPT ![r] = "cleanup"]
  /\ UNCHANGED <<clVars, cfgVars, isRunning, axeResults, extraResults,
                 appVars, ropt, rret, rClosed, scanVars>>

DefaultOptions ==
  [concurrency |-> 1, continueOnError |-> TRUE, skipExtraChecks |-> FALSE]

\* the call returns: its options, its page loop and its concurrentLimit
\* call cease to exist
CallReturns(r) ==
  /\ ropt' = [ropt EXCEPT ![r] = DefaultOptions]
  /\ pagePc' = [p \in Pages |-> "none"]
  /\ navOk' = {}
  /\ seqIdx' = 0
  /\ currentPage' = 0
  /\ clPc' = "idle"
  /\ tasks' = << >>
  /\ concurrency' = 1
  /\ nextIdx' = 1
  /\ tStatus' = << >>
  /\ executing' = {}
  /\ raceSet' = {}
  /\ raceState' = "none"
  /\ results' = << >>
  /\ settleOrder' = << >>
  /\ clReturn' = << >>

\* cleanupPhase (closeApp), then success, the returned copy and finally
CleanupPhase(r) ==
  /\ rpc[r] = "cleanup"
  /\ electronApp' = HandleAfterClose(electronApp)
  /\ mainWindow' = FALSE
  /\ rClosed' = [rClosed EXCEPT ![r] = TRUE]
  /\ rret' = [rret EXCEPT ![r] = Snapshot(SuccessOf(errors))]
  /\ rpc' = [rpc EXCEPT ![r] = "resolved"]
  /\ isRunning' = FALSE
  /\ CallReturns(r)
  /\ UNCHANGED <<cfgVars, resVars>>

\* catch block of runTestSuite after success = false and the 'unknown'
\* record: emergency closeApp, the returned copy and finally
EmergencyCleanup(r) ==
  /\ rpc[r] = "emergency"
  /\ electronApp' = HandleAfterClose(electronApp)
  /\ mainWindow' = FALSE
  /\ rClosed' = [rClosed EXCEPT ![r] = TRUE]
  /\ rret' = [rret EXCEPT ![r] = Snapshot(FALSE)]
  /\ rpc' = [rpc EXCEPT ![r] = "resolved"]
  /\ isRunning' = FALSE
  /\ CallReturns(r)
  /\ UNCHANGED <<cfgVars, resVars>>

\* ------------------------------------------------------- AsyncUtils.retry
NoOutcome == [kind |-> "none", val |-> 0]

Min(a, b) == IF a <= b THEN a ELSE b

RECURSIVE Pow(_, _)
Pow(b, e) == IF e = 0 THEN 1 ELSE b * Pow(b, e - 1)

\* invocation n of fn: it fails with its own error n while n <= failures,
\* then resolves with the success value
FnOutcome(fn, n) ==
  IF n <= fn.failures THEN [kind |-> "error", val |-> n]
                      ELSE [kind |-> "value", val |-> 7]

\* if (!retryCondition(error)) throw error
GivesUp_Mut(fn, error) == FALSE
GivesUp(fn, error) == error \in fn.fatal

\* if (attempt === maxAttempts) break
LastAttempt_Mut(a, maxAttempts) == FALSE
LastAttempt(a, maxAttempts) == a = maxAttempts

\* Math.min(baseDelay * Math.pow(backoffFactor, attempt - 1), maxDelay)
BackoffDelay(opt, a) ==
  Min(opt.baseDelay * Pow(opt.backoffFactor, a - 1), opt.maxDelay)

\* head of the for-loop for loop variable a: `attempt <= maxAttempts` then
\* the invocation of fn, else `throw lastError` behind the loop
RetryIteration(a) ==
  /\ attempt' = a
  /\ IF a <= rtOptions.maxAttempts
       THEN /\ calls' = calls + 1
            /\ rtPc' = "fn"
            /\ UNCHANGED rtResult
       ELSE /\ rtPc' = "threw"
            /\ rtResult' = [kind |-> "error", val |-> lastError]
            /\ UNCHANGED calls

\* retry(fn, options) up to its first await
RetryCall ==
  /\ rtPc = "call"
  /\ RetryIteration(1)
  /\ UNCHANGED <<rtOptions, rtFn, waits, lastError, clVars, ckVars>>

\* the promise of fn() settles: return its value, or run the catch block
\* up to `throw error`, `break` or `await this.delay(delay)`
FnSettles ==
  /\ rtPc = "fn"
  /\ LET out == FnOutcome(rtFn, calls)
     IN IF out.kind = "value"
          THEN /\ rtPc' = "returned"
               /\ rtResult' = out
               /\ UNCHANGED <<waits, lastError>>
          ELSE /\ lastError' = out.val
               /\ IF GivesUp(rtFn, out.val)
                    THEN /\ rtPc' = "threw"
                         /\ rtResult' = out
                         /\ UNCHANGED waits
                    ELSE IF LastAttempt(attempt, rtOptions.maxAttempts)
                           THEN /\ rtPc' = "threw"
                                /\ rtResult' =
                                     [kind |-> "error", val |-> out.val]
                                /\ UNCHANGED waits
                           ELSE /\ rtPc' = "delay"
                                /\ waits' = Append(waits,
                                     BackoffDelay(rtOptions, attempt))
                                /\ UNCHANGED rtResult
  /\ UNCHANGED <<rtOptions, rtFn, attempt, calls, clVars, ckVars>>

\* the timer of delay(ms) fires: attempt++ and the next iteration
DelayOver ==
  /\ rtPc = "delay"
  /\ RetryIteration(attempt + 1)
  /\ UNCHANGED <<rtOptions, rtFn, waits, lastError, clVars, ckVars>>

\* ------------------------------------------------- AsyncUtils.withTimeout
Pending == [kind |-> "pending", val |-> ""]

\* the outcomes an operation can have of its own
OwnOutcomes == {[kind |-> "value", val |-> "done"],
                [kind |-> "error", val |-> "failed"]}

TimeoutMessages == {"Operation timed out", "App close timeout"}

\* reject(new Error(timeoutMessage))
TimeoutError(message) == [kind |-> "error", val |-> message]

OwnOutcome(promise) == [kind |-> promise.kind, val |-> promise.val]

\* Promise.race: the returned promise takes the outcome of the first of its
\* inputs to settle and ignores every later settlement
RaceSettle_Mut(current, outcome) == outcome

RaceSettle(current, outcome) ==
  IF current = Pending THEN outcome ELSE current

\* withTimeout(promise, timeoutMs, timeoutMessage): both promises are handed
\* to Promise.race and the timer is armed
WithTimeout ==
  /\ wtPc = "call"
  /\ wtPc' = "pending"
  /\ UNCHANGED <<wtPromise, timeoutMs, timeoutMessage, now, wtEvents,
                 wtResult>>

\* the operation settles, at its time
PromiseSettles ==
  /\ wtPc \in {"pending", "settled"}
  /\ "promise" \notin Range(wtEvents)
  /\ wtPromise.at = now
  /\ wtEvents' = Append(wtEvents, "promise")
  /\ wtResult' = RaceSettle(wtResult, OwnOutcome(wtPromise))
  /\ wtPc' = "settled"
  /\ UNCHANGED <<wtPromise, timeoutMs, timeoutMessage, now>>

\* the setTimeout callback runs, not before timeoutMs have elapsed
TimerFires ==
  /\ wtPc \in {"pending", "settled"}
  /\ "timer" \notin Range(wtEvents)
  /\ now >= timeoutMs
  /\ wtEvents' = Append(wtEvents, "timer")
  /\ wtResult' = RaceSettle(wtResult, TimeoutError(timeoutMessage))
  /\ wtPc' = "settled"
  /\ UNCHANGED <<wtPromise, timeoutMs, timeoutMessage, now>>

\* time passes, unless the operation is to settle at this very time
Tick ==
  /\ wtPc \in {"pending", "settled"}
  /\ now < MaxTime
  /\ wtPromise.at = now => "promise" \in Range(wtEvents)
  /\ now' = now + 1
  /\ UNCHANGED <<wtPc, wtPromise, timeoutMs, timeoutMessage, wtEvents,
                 wtResult>>

\* ------------------------------------------------------ AppManager.closeApp
\* the catch block around the graceful close runs when withTimeout rejected,
\* with the error of electronApp.close() or with the timeout error
ForceNeeded_Mut(outcome) == TRUE

ForceNeeded(outcome) == outcome.kind = "error"

\* closeApp up to its await: with an application, electronApp.close() is
\* called and raced against the timer (CloseTimeout stands for 10000 ms);
\* without one, closeApp returns
CloseApp ==
  /\ caPc = "call"
  /\ IF electronApp
       THEN /\ closeCalls' = closeCalls + 1
            /\ caPc' = "graceful"
            /\ WithTimeout
       ELSE /\ caPc' = "returned"
            /\ UNCHANGED <<closeCalls, wtVars>>
  /\ UNCHANGED <<forced, electronApp, mainWindow>>

\* continuation of `await asyncUtils.withTimeout(...)`: on a rejection
\* execSync(taskkill), whose own failure is caught; the handles are cleared
CloseAppResumes(killOk) ==
  /\ caPc = "graceful"
  /\ wtPc = "settled"
  /\ forced' = IF ForceNeeded(wtResult)
                 THEN (IF killOk THEN "ok" ELSE "failed")
                 ELSE forced
  /\ electronApp' = HandleAfterClose(electronApp)
  /\ mainWindow' = FALSE
  /\ caPc' = "returned"
  /\ UNCHANGED <<closeCalls, wtVars>>

\* isRunning(): this.electronApp !== null
AppIsRunning == electronApp

\* ---------------------------------------------------------- TestEngine.stop
\* stop() up to its await: `if (!this.isRunning) return`, else cleanupPhase
\* is entered and closeApp starts to close the application
Stop ==
  /\ stPc = "idle"
  /\ stPc' = IF isRunning THEN "cleanup" ELSE "noop"

\* closeApp has cleared the handles, cleanupPhase has returned, and stop
\* sets this.isRunning = false
StopResumes ==
  /\ stPc = "cleanup"
  /\ electronApp' = HandleAfterClose(electronApp)
  /\ mainWindow' = FALSE
  /\ isRunning' = FALSE
  /\ stPc' = "done"

\* ------------------------------------------------ AccessibilityTreeChecker
RequiredLandmarks ==
  <<"banner", "main", "navigation", "complementary", "contentinfo">>

\* landmarkRoles of extractLandmarks
LandmarkRoles == RequiredLandmarks \o <<"region", "search", "form">>

Max(a, b) == IF a >= b THEN a ELSE b

\* landmarks.map(l => l.role)
PresentLandmarks(list) == [k \in 1..Len(list) |-> list[k].role]

\* this.requiredLandmarks.filter(role => !presentLandmarks.includes(role))
Absent(list, role) == role \notin Range(PresentLandmarks(list))

MissingRequired(list) ==
  SelectSeq(RequiredLandmarks, LAMBDA role : Absent(list, role))

\* checkLandmarkAccessibility(landmark): missing-name, empty-main
CheckLandmarkAccessibility(landmark) ==
  (IF ~landmark.named THEN <<"missing-name">> ELSE << >>) \o
  (IF landmark.role = "main" /\ landmark.children = 0
     THEN <<"empty-main">> ELSE << >>)

\* for (const landmark of landmarks) landmarkIssues.push(...issues)
RECURSIVE LandmarkIssues(_, _)
LandmarkIssues(list, k) ==
  IF k > Len(list) THEN << >>
  ELSE CheckLandmarkAccessibility(list[k]) \o LandmarkIssues(list, k + 1)

\* Math.max(0, Math.min(100, score))
Clamp_Mut(score) == score

Clamp(score) == Max(0, Min(100, score))

\* calculateLandmarkScore(landmarks, missing, issues)
CalculateLandmarkScore(list, missing, issues) ==
  Clamp(100 - Len(missing) * 20 - Len(issues) * 10
        + (IF Len(list) >= 3 THEN 10 ELSE 0))

NoLandmarkResult == [missing |-> << >>, issues |-> << >>, score |-> 0]

\* checkLandmarks(page, axTree)
CheckLandmarks ==
  /\ trPc = "landmarks"
  /\ lmResult' =
       [missing |-> MissingRequired(landmarks),
        issues |-> LandmarkIssues(landmarks, 1),
        score |-> CalculateLandmarkScore(landmarks,
                    MissingRequired(landmarks), LandmarkIssues(landmarks, 1))]
  /\ trPc' = "done"
  /\ UNCHANGED <<landmarks, headings, orderIssues>>

\* if (current.level > previous.level + 1)
LevelSkip_Mut(current, previous) == current > previous

LevelSkip(current, previous) == current > previous + 1

\* the for-loop of checkHeadingOrder from index i (headings[i] is the
\* i-th heading here, the element at index i - 1 of the array)
RECURSIVE HeadingOrderLoop(_, _, _)
HeadingOrderLoop(levels, i, issues) ==
  IF i > Len(levels) THEN issues
  ELSE HeadingOrderLoop(levels, i + 1,
         IF LevelSkip(levels[i], levels[i - 1])
           THEN Append(issues, [index |-> i - 1, from |-> levels[i - 1],
                                to |-> levels[i]])
           ELSE issues)

\* checkHeadingOrder(headings)
CheckHeadingOrder(levels) == HeadingOrderLoop(levels, 2, << >>)

CheckHeadings ==
  /\ trPc = "headings"
  /\ orderIssues' = CheckHeadingOrder(headings)
  /\ trPc' = "done"
  /\ UNCHANGED <<landmarks, headings, lmResult>>

\* ----------------------------------------------------------- CheckerManager
\* what executeCheck of a checker can do: return a positive result, return
\* a negative result (no error field, no exception), return a result with
\* an error field (the built-in checkers catch their own failures), throw
CheckOutcomes == {"ok", "negative", "error", "throws"}

\* catch blocks of BaseChecker.run and of runSingleCheck:
\* { success: false, error: error.message, ... }
CaughtResult_Mut(outcome) ==
  [success |-> TRUE, error |-> "none", outcome |-> outcome]
CaughtResult(outcome) ==
  [success |-> FALSE, error |-> "thrown", outcome |-> outcome]

\* BaseChecker.run: result = await this.executeCheck(...);
\* result.success = !result.error. `outcome` keeps what executeCheck did.
BaseCheckerRun(outcome) ==
  IF outcome = "throws"
    THEN CaughtResult(outcome)
    ELSE LET error == IF outcome = "error" THEN "reported" ELSE "none"
         IN [success |-> error = "none", error |-> error,
             outcome |-> outcome]

\* runSingleCheck: try { return await checker.run(...) } catch
RunSingleCheck(outcome) == BaseCheckerRun(outcome)

NoOut == [success |-> FALSE, error |-> "none", outcome |-> "none"]

\* Math.round((passed / totalChecks) * 100), 0 without checkers
SuccessRate(passed, total) ==
  IF total > 0 THEN (200 * passed + total) \div (2 * total) ELSE 0

\* results = { checks: {}, summary: { totalChecks, passed: 0, failed: 0,
\* errors: 0 } }; successRate (-1: not set) is added at the end
NewResults(total) ==
  [checks |-> << >>,
   summary |-> [totalChecks |-> total, passed |-> 0, failed |-> 0,
                errors |-> 0, successRate |-> -1]]

NoChecks == NewResults(0)

\* processCheckResult(results, checkerName, result)
ProcessCheckResult(res, name, result) ==
  [checks |-> (name :> result) @@ res.checks,
   summary |->
     IF result.success = FALSE
       THEN IF result.error # "none"
              THEN [res.summary EXCEPT !.errors = @ + 1]
              ELSE [res.summary EXCEPT !.failed = @ + 1]
       ELSE [res.summary EXCEPT !.passed = @ + 1]]

\* checkResults.forEach((result, index) => processCheckResult(results,
\* sortedCheckers[index].name, result)), from index k on
RECURSIVE ProcessAll(_, _, _, _)
ProcessAll(res, sorted, outs, k) ==
  IF k > Len(outs)
    THEN res
    ELSE ProcessAll(ProcessCheckResult(res, sorted[k].id, outs[k]),
                    sorted, outs, k + 1)

\* results.summary.successRate = ...
Finalise(res) ==
  [res EXCEPT !.summary.successRate =
     SuccessRate(res.summary.passed, res.summary.totalChecks)]

\* initializeCheckers: [...].filter(checker => checker.isEnabled())
InitializeCheckers(cands) == SelectSeq(cands, LAMBDA c : c.enabled)

\* Array.prototype.sort with (a, b) => a.getPriority() - b.getPriority() is
\* stable: an element goes behind the elements of lower or equal priority
InsertionPoint_Mut(sorted, c) ==
  Cardinality({j \in 1..Len(sorted) : sorted[j].priority < c.priority})
InsertionPoint(sorted, c) ==
  Cardinality({j \in 1..Len(sorted) : sorted[j].priority <= c.priority})

RECURSIVE SortByPriority(_)
SortByPriority(cs) ==
  IF cs = << >>
    THEN << >>
    ELSE LET init == SortByPriority(SubSeq(cs, 1, Len(cs) - 1))
             c == cs[Len(cs)]
             k == InsertionPoint(init, c)
         IN SubSeq(init, 1, k) \o <<c>> \o SubSeq(init, k + 1, Len(init))

\* const concurrency = this.config.maxConcurrency || 3
EffectiveConcurrency(mc) == IF mc = 0 THEN 3 ELSE mc

\* if (concurrency > 1) concurrentLimit, else the sequential for-loop
ChecksConcurrent(c) == c > 1

\* addChecker(checker): any object with a run function is pushed
AddChecker(priority, enabled) ==
  /\ ckPc = "idle"
  /\ Len(checkers) < MaxCheckers
  /\ Cardinality({j \in 1..Len(checkers) : checkers[j].added}) < MaxAdded
  /\ checkers' = Append(checkers, [id |-> Len(checkers) + 1,
                                   priority |-> priority,
                                   enabled |-> enabled, added |-> TRUE])
  /\ UNCHANGED <<maxConcurrency, ckPc, ckIdx, ckOut, ckResults, clVars,
                 rtVars>>

\* runAllChecks up to its first await: the results object, the in-place
\* sort, then the entry of concurrentLimit or the first runSingleCheck
RunAllChecks ==
  /\ ckPc = "idle"
  /\ LET sorted == SortByPriority(checkers)
         n == Len(sorted)
         c == EffectiveConcurrency(maxConcurrency)
     IN /\ checkers' = sorted
        /\ ckOut' = [i \in 1..n |-> NoOut]
        /\ UNCHANGED maxConcurrency
        /\ IF ChecksConcurrent(c)
             THEN /\ ckPc' = "conc"
                  /\ ckIdx' = 0
                  /\ ckResults' = NewResults(n)
                  /\ clPc' = "call"
                  /\ tasks' = [i \in 1..n |-> [ok |-> TRUE, val |-> 7]]
                  /\ concurrency' = c
                  /\ nextIdx' = 1
                  /\ tStatus' = [i \in 1..n |-> "none"]
                  /\ executing' = {}
                  /\ raceSet' = {}
                  /\ raceState' = "none"
                  /\ results' = << >>
                  /\ settleOrder' = << >>
                  /\ clReturn' = << >>
             ELSE /\ ckPc' = IF n = 0 THEN "done" ELSE "seq"
                  /\ ckIdx' = 1
                  /\ ckResults' = IF n = 0 THEN Finalise(NewResults(n))
                                           ELSE NewResults(n)
                  /\ UNCHANGED clVars
  /\ UNCHANGED rtVars

\* sequential loop: runSingleCheck of the current checker resolves, its
\* result is processed, and the next checker is started or the summary made
CheckFinishes(outcome) ==
  /\ ckPc = "seq"
  /\ LET i == ckIdx
         result == RunSingleCheck(outcome)
         res == ProcessCheckResult(ckResults, checkers[i].id, result)
     IN /\ ckOut' = [ckOut EXCEPT ![i] = result]
        /\ ckIdx' = i + 1
        /\ IF i < Len(checkers)
             THEN /\ ckResults' = res
                  /\ UNCHANGED ckPc
             ELSE /\ ckResults' = Finalise(res)
                  /\ ckPc' = "done"
  /\ UNCHANGED <<checkers, maxConcurrency, clVars, rtVars>>

\* concurrent branch: entry of concurrentLimit(checkTasks, concurrency);
\* without checkers it returns [] and runAllChecks makes the summary
ChecksEnter ==
  /\ ckPc = "conc"
  /\ CLEnter
  /\ IF Len(tasks) = 0
       THEN /\ ckPc' = "done"
            /\ ckResults' = Finalise(ckResults)
       ELSE UNCHANGED <<ckPc, ckResults>>
  /\ UNCHANGED <<checkers, maxConcurrency, ckIdx, ckOut, rtVars>>

ChecksLoop ==
  /\ ckPc = "conc"
  /\ CLLoop
  /\ UNCHANGED <<ckVars, rtVars>>

\* concurrent branch: runSingleCheck of a started checker resolves
CheckSettles(i, outcome) ==
  /\ ckPc = "conc"
  /\ SettlePromise(i, TRUE)
  /\ ckOut' = [ckOut EXCEPT ![i] = RunSingleCheck(outcome)]
  /\ UNCHANGED <<checkers, maxConcurrency, ckPc, ckIdx, ckResults,
                 settleOrder, rtVars>>

ChecksResume ==
  /\ ckPc = "conc"
  /\ CLResume
  /\ UNCHANGED <<ckVars, rtVars>>

\* concurrent branch: concurrentLimit returns the results by index, each
\* is processed under the name of the checker at that index
ChecksAll ==
  /\ ckPc = "conc"
  /\ CLAll
  /\ clPc' = "done"
  /\ LET checkResults == [k \in 1..Len(results) |-> ckOut[results[k]]]
     IN ckResults' =
          Finalise(ProcessAll(ckResults, checkers, checkResults, 1))
  /\ ckPc' = "done"
  /\ UNCHANGED <<checkers, maxConcurrency, ckIdx, ckOut, rtVars>>

\* ------------------------------------------------------------ ReportManager
NoReports == [successful |-> 0, failed |-> 0, success |-> FALSE]

Formats == 1..Len(gen)

\* asyncUtils.concurrentLimit(reportPromises, 2)
ReportConcurrency == 2

\* generateReport calls that have started and have not returned
Generating == {f \in Formats : gen[f] = "running"}

\* formats.forEach((format, index) => ...), results.success
ReportSummary(g) ==
  LET failed == Cardinality({f \in DOMAIN g : g[f] = "failed"})
  IN [successful |-> Len(g) - failed, failed |-> failed,
      success |-> failed = 0]

\* generateAllReports up to its await: formats.map(...) calls generateReport
\* for every format, then the promises are handed to concurrentLimit
GenerateAllReports ==
  /\ raPc = "call"
  /\ gen' = [f \in Formats |-> "running"]
  /\ raPc' = "limit"
  /\ clPc' = "call"
  /\ tasks' = [f \in Formats |-> [ok |-> TRUE, val |-> 7]]
  /\ concurrency' = ReportConcurrency
  /\ nextIdx' = 1
  /\ tStatus' = [f \in Formats |-> "none"]
  /\ executing' = {}
  /\ raceSet' = {}
  /\ raceState' = "none"
  /\ results' = << >>
  /\ settleOrder' = << >>
  /\ clReturn' = << >>
  /\ UNCHANGED raResult

\* generateReport(format, ...) returns: reporter.generate succeeded, or it
\* failed or threw and the result has success = false
GenerateReportReturns(f, ok) ==
  /\ f \in Generating
  /\ gen' = [gen EXCEPT ![f] = IF ok THEN "ok" ELSE "failed"]
  /\ UNCHANGED <<raPc, raResult, clVars>>

ReportsEnter ==
  /\ raPc = "limit"
  /\ CLEnter
  /\ UNCHANGED raVars

ReportsLoop ==
  /\ raPc = "limit"
  /\ CLLoop
  /\ UNCHANGED raVars

\* wrappedTask = () => taskFn: the promise concurrentLimit made for entry i
\* resolves with the promise of generateReport, once that has settled
ReportPromiseSettles(i) ==
  /\ raPc = "limit"
  /\ i \notin Generating
  /\ SettlePromise(i, TRUE)
  /\ UNCHANGED <<raVars, settleOrder>>

ReportsResume ==
  /\ raPc = "limit"
  /\ CLResume
  /\ UNCHANGED raVars

\* concurrentLimit has returned: the results are counted
ProcessReports ==
  /\ raPc = "limit"
  /\ IF clPc = "done"
       THEN UNCHANGED clVars
       ELSE CLAll
  /\ clPc' = "done"
  /\ raResult' = ReportSummary(gen)
  /\ raPc' = "done"
  /\ UNCHANGED gen

\* ------------------------------------------ specification: concurrentLimit
TaskLists == UNION {[1..n -> [ok : BOOLEAN, val : Values]] : n \in 0..MaxTasks}

\* a TestEngine that has not run a suite yet
NoSuiteRun ==
  /\ isRunning = FALSE
  /\ axeResults = << >>
  /\ extraResults = << >>
  /\ errors = << >>
  /\ warnings = << >>
  /\ rpc = [r \in Runs |-> "none"]
  /\ ropt = [r \in Runs |-> DefaultOptions]
  /\ rret = [r \in Runs |-> NoResult]
  /\ rClosed = [r \in Runs |-> FALSE]
  /\ pagePc = [p \in 1..nPages |-> "none"]
  /\ navOk = {}
  /\ seqIdx = 0
  /\ currentPage = 0

\* a TestEngine right after its constructor, its AppManager idle
EngineConstructed ==
  /\ electronApp = FALSE
  /\ mainWindow = FALSE
  /\ NoSuiteRun

\* no concurrentLimit call in progress
CLIdle ==
  /\ clPc = "idle"
  /\ tasks = << >>
  /\ concurrency = 1
  /\ nextIdx = 1
  /\ tStatus = << >>
  /\ executing = {}
  /\ raceSet = {}
  /\ raceState = "none"
  /\ results = << >>
  /\ settleOrder = << >>
  /\ clReturn = << >>

\* no CheckerManager in use
CheckerIdle ==
  /\ checkers = << >>
  /\ maxConcurrency = 0
  /\ ckPc = "off"
  /\ ckIdx = 0
  /\ ckOut = << >>
  /\ ckResults = NoChecks

\* no retry call in progress
RetryIdle ==
  /\ rtPc = "off"
  /\ rtOptions = [maxAttempts |-> 3, baseDelay |-> 1, maxDelay |-> 4,
                  backoffFactor |-> 2]
  /\ rtFn = [failures |-> 0, fatal |-> {}]
  /\ attempt = 0
  /\ calls = 0
  /\ waits = << >>
  /\ lastError = 0
  /\ rtResult = NoOutcome

\* no withTimeout call in progress
TimeoutIdle ==
  /\ wtPc = "off"
  /\ wtPromise = [kind |-> "value", val |-> "done", at |-> 0]
  /\ timeoutMs = 0
  /\ timeoutMessage = "Operation timed out"
  /\ now = 0
  /\ wtEvents = << >>
  /\ wtResult = Pending

\* no external primitive called yet
ExIdle == launchCalls = 0

\* no generateAllReports call in progress
ReportsIdle ==
  /\ raPc = "off"
  /\ gen = << >>
  /\ raResult = NoReports

\* no closeApp call in progress
CloseIdle ==
  /\ caPc = "off"
  /\ closeCalls = 0
  /\ forced = "none"

\* stop is not called
StopIdle == stPc = "off"

\* this.testResults.screenshots = []
NoScreenshots == screenshots = << >>

\* no AccessibilityTreeChecker at work
TreeIdle ==
  /\ trPc = "off"
  /\ landmarks = << >>
  /\ headings = << >>
  /\ lmResult = NoLandmarkResult
  /\ orderIssues = << >>

\* no ZoomChecker at work
NoMeasure == [overflow |-> FALSE, layoutBroken |-> FALSE]

NoRecommendation == [maxSupportedZoom |-> 0, meetsWCAG |-> FALSE]

ZoomIdle ==
  /\ zmPc = "off"
  /\ zoomLevels = << >>
  /\ maxZoom = 0
  /\ zmIdx = 0
  /\ pageZoom = 0
  /\ zmCur = NoMeasure
  /\ resetFailed = FALSE
  /\ zoomTests = << >>
  /\ recommendedZoomSupport = NoRecommendation

\* no JSON report has been prepared
JsonIdle == extraStats = NoExtraStats

\* new AxeScanner(config): this.axeInjected = false
Scanners == {"primary", "contrast"}

NoContrastResult ==
  [success |-> FALSE, error |-> "none", totalViolations |-> 0, ran |-> FALSE]

AxeIdle ==
  /\ axPc = "off"
  /\ axWho = "primary"
  /\ windowAxe = FALSE
  /\ injections = 0
  /\ axeInjected = [s \in Scanners |-> FALSE]
  /\ runSettled = "none"
  /\ scanResult = EmptyResult("none")
  /\ legacyInvoked = FALSE
  /\ contrastResult = NoContrastResult
  /\ scans = 0

ExtIdle == ZoomIdle /\ JsonIdle /\ AxeIdle

AuxIdle ==
  /\ TimeoutIdle
  /\ ExIdle
  /\ ReportsIdle
  /\ CloseIdle
  /\ StopIdle
  /\ NoScreenshots
  /\ TreeIdle
  /\ ExtIdle

\* the utilities above are idle
CoreAuxIdle ==
  /\ TimeoutIdle
  /\ ExIdle
  /\ ReportsIdle
  /\ CloseIdle
  /\ StopIdle
  /\ NoScreenshots
  /\ TreeIdle

UtilsIdle == CheckerIdle /\ RetryIdle /\ AuxIdle

InitCL ==
  /\ clPc = "call"
  /\ tasks \in TaskLists
  /\ concurrency \in 0..MaxLimit
  /\ nextIdx = 1
  /\ tStatus = [i \in 1..Len(tasks) |-> "none"]
  /\ executing = {}
  /\ raceSet = {}
  /\ raceState = "none"
  /\ results = << >>
  /\ settleOrder = << >>
  /\ clReturn = << >>
  /\ nPages = 0
  /\ cfgValid = TRUE
  /\ exeExists = TRUE
  /\ callBudget = 0
  /\ faults = {}
  /\ EngineConstructed
  /\ UtilsIdle

Enter == CLEnter /\ UNCHANGED <<engVars, utilVars>>

Loop == CLLoop /\ UNCHANGED <<engVars, utilVars>>

TaskSettle ==
  /\ \E i \in TaskIds : SettleTask(i, tasks[i].ok)
  /\ UNCHANGED <<engVars, utilVars>>

Resume == CLResume /\ UNCHANGED <<engVars, utilVars>>

All == CLAll /\ UNCHANGED <<engVars, utilVars>>

NextCL == Enter \/ Loop \/ TaskSettle \/ Resume \/ All

SpecCL == InitCL /\ [][NextCL]_vars

\* ------------------------------------------ specification: CheckerManager
\* the registry a constructor can build: checkers that report themselves
\* enabled, in the order of the list in initializeCheckers
BuiltInLists ==
  UNION {{[i \in 1..n |-> [id |-> i, priority |-> f[i], enabled |-> TRUE,
                         added |-> FALSE]] :
            f \in [1..n -> Priorities]} : n \in 0..MaxCheckers}

InitCheck ==
  /\ checkers \in {InitializeCheckers(c) : c \in BuiltInLists}
  /\ maxConcurrency \in 0..MaxConcurrency
  /\ ckPc = "idle"
  /\ ckIdx = 0
  /\ ckOut = << >>
  /\ ckResults = NoChecks
  /\ RetryIdle
  /\ AuxIdle
  /\ CLIdle
  /\ nPages = 0
  /\ cfgValid = TRUE
  /\ exeExists = TRUE
  /\ callBudget = 0
  /\ faults = {}
  /\ EngineConstructed

addChecker ==
  /\ \E priority \in Priorities, enabled \in BOOLEAN :
       AddChecker(priority, enabled)
  /\ UNCHANGED <<engVars, auxVars>>

runAllChecks == RunAllChecks /\ UNCHANGED <<engVars, auxVars>>

runSingleCheck ==
  /\ \E outcome \in CheckOutcomes : CheckFinishes(outcome)
  /\ UNCHANGED <<engVars, auxVars>>

checkTasksEnter == ChecksEnter /\ UNCHANGED <<engVars, auxVars>>

checkTasksLoop == ChecksLoop /\ UNCHANGED <<engVars, auxVars>>

checkTaskSettles ==
  /\ \E i \in TaskIds, outcome \in CheckOutcomes : CheckSettles(i, outcome)
  /\ UNCHANGED <<engVars, auxVars>>

checkTasksResume == ChecksResume /\ UNCHANGED <<engVars, auxVars>>

checkTasksAll == ChecksAll /\ UNCHANGED <<engVars, auxVars>>

NextCheck ==
  \/ addChecker
  \/ runAllChecks
  \/ runSingleCheck
  \/ checkTasksEnter
  \/ checkTasksLoop
  \/ checkTaskSettles
  \/ checkTasksResume
  \/ checkTasksAll

SpecCheck == InitCheck /\ [][NextCheck]_vars

\* ----------------------------------------- specification: AsyncUtils.retry
InitRetry ==
  /\ rtPc = "call"
  /\ rtOptions \in [maxAttempts : 0..MaxAttempts, baseDelay : BaseDelays,
                     maxDelay : MaxDelays, backoffFactor : BackoffFactors]
  /\ rtFn \in [failures : 0..MaxAttempts, fatal : SUBSET (1..MaxAttempts)]
  /\ attempt = 0
  /\ calls = 0
  /\ waits = << >>
  /\ lastError = 0
  /\ rtResult = NoOutcome
  /\ CheckerIdle
  /\ AuxIdle
  /\ CLIdle
  /\ nPages = 0
  /\ cfgValid = TRUE
  /\ exeExists = TRUE
  /\ callBudget = 0
  /\ faults = {}
  /\ EngineConstructed

retry == RetryCall /\ UNCHANGED <<engVars, auxVars>>

fnSettles == FnSettles /\ UNCHANGED <<engVars, auxVars>>

delay == DelayOver /\ UNCHANGED <<engVars, auxVars>>

NextRetry == retry \/ fnSettles \/ delay

SpecRetry == InitRetry /\ [][NextRetry]_vars

\* ------------------------------------ specification: AsyncUtils.withTimeout
InitTimeout ==
  /\ wtPc = "call"
  /\ wtPromise \in {[kind |-> o.kind, val |-> o.val, at |-> t] :
                      o \in OwnOutcomes, t \in -1..MaxTime}
  /\ timeoutMs \in 0..MaxTime
  /\ timeoutMessage \in TimeoutMessages
  /\ now = 0
  /\ wtEvents = << >>
  /\ wtResult = Pending
  /\ ExIdle
  /\ StopIdle
  /\ NoScreenshots
  /\ TreeIdle
  /\ ExtIdle
  /\ ReportsIdle
  /\ CloseIdle
  /\ CheckerIdle
  /\ RetryIdle
  /\ CLIdle
  /\ nPages = 0
  /\ cfgValid = TRUE
  /\ exeExists = TRUE
  /\ callBudget = 0
  /\ faults = {}
  /\ EngineConstructed

wtOthers == <<clVars, engVars, ckVars, rtVars, exVars, raVars, caVars,
              stVars, shotVars, trVars, extVars>>

withTimeout == WithTimeout /\ UNCHANGED wtOthers

promiseSettles ==
  PromiseSettles /\ UNCHANGED wtOthers

timerFires == TimerFires /\ UNCHANGED wtOthers

tick == Tick /\ UNCHANGED wtOthers

NextTimeout == withTimeout \/ promiseSettles \/ timerFires \/ tick

SpecTimeout == InitTimeout /\ [][NextTimeout]_vars

\* ------------------------- specification: ReportManager.generateAllReports
InitReports ==
  /\ raPc = "call"
  /\ gen \in {[f \in 1..n |-> "none"] : n \in 0..MaxFormats}
  /\ raResult = NoReports
  /\ TimeoutIdle
  /\ ExIdle
  /\ StopIdle
  /\ NoScreenshots
  /\ TreeIdle
  /\ ExtIdle
  /\ CloseIdle
  /\ CheckerIdle
  /\ RetryIdle
  /\ CLIdle
  /\ nPages = 0
  /\ cfgValid = TRUE
  /\ exeExists = TRUE
  /\ callBudget = 0
  /\ faults = {}
  /\ EngineConstructed

raOthers == <<engVars, ckVars, rtVars, wtVars, exVars, caVars, stVars,
              shotVars, trVars, extVars>>

generateAllReports == GenerateAllReports /\ UNCHANGED raOthers

generateReport ==
  /\ \E f \in Formats, ok \in BOOLEAN : GenerateReportReturns(f, ok)
  /\ UNCHANGED raOthers

reportTasksEnter == ReportsEnter /\ UNCHANGED raOthers

reportTasksLoop == ReportsLoop /\ UNCHANGED raOthers

reportTaskSettles ==
  /\ \E i \in TaskIds : ReportPromiseSettles(i)
  /\ UNCHANGED raOthers

reportTasksResume == ReportsResume /\ UNCHANGED raOthers

processReports == ProcessReports /\ UNCHANGED raOthers

NextReports ==
  \/ generateAllReports
  \/ generateReport
  \/ reportTasksEnter
  \/ reportTasksLoop
  \/ reportTaskSettles
  \/ reportTasksResume
  \/ processReports

SpecReports == InitReports /\ [][NextReports]_vars

\* ------------------------------------- specification: AppManager.closeApp
\* closeApp on an AppManager without an application, with an application,
\* or with an application and its main window; electronApp.close() resolves,
\* rejects or hangs
InitClose ==
  /\ caPc = "call"
  /\ closeCalls = 0
  /\ forced = "none"
  /\ electronApp \in BOOLEAN
  /\ mainWindow \in {w \in BOOLEAN : w => electronApp}
  /\ wtPc = "call"
  /\ wtPromise \in {[kind |-> o.kind, val |-> o.val, at |-> t] :
                      o \in OwnOutcomes, t \in -1..MaxTime}
  /\ timeoutMs = CloseTimeout
  /\ timeoutMessage = "App close timeout"
  /\ now = 0
  /\ wtEvents = << >>
  /\ wtResult = Pending
  /\ ExIdle
  /\ StopIdle
  /\ NoScreenshots
  /\ TreeIdle
  /\ ExtIdle
  /\ ReportsIdle
  /\ CheckerIdle
  /\ RetryIdle
  /\ CLIdle
  /\ nPages = 0
  /\ cfgValid = TRUE
  /\ exeExists = TRUE
  /\ callBudget = 0
  /\ faults = {}
  /\ NoSuiteRun

caOthers == <<clVars, cfgVars, isRunning, resVars, runVars, scanVars, ckVars,
              rtVars, exVars, raVars, stVars, shotVars, trVars, extVars>>

closeApp == CloseApp /\ UNCHANGED caOthers

closeSettles == PromiseSettles /\ UNCHANGED <<caOthers, caVars, appVars>>

closeTimerFires == TimerFires /\ UNCHANGED <<caOthers, caVars, appVars>>

closeTick == Tick /\ UNCHANGED <<caOthers, caVars, appVars>>

closeAppResumes ==
  /\ \E killOk \in BOOLEAN : CloseAppResumes(killOk)
  /\ UNCHANGED caOthers

NextClose ==
  \/ closeApp
  \/ closeSettles
  \/ closeTimerFires
  \/ closeTick
  \/ closeAppResumes

SpecClose == InitClose /\ [][NextClose]_vars

\* ---------------------------------------------- specification: TestEngine
\* one runTestSuite call on a fresh engine
Init ==
  /\ nPages \in 1..MaxPages
  /\ cfgValid \in BOOLEAN
  /\ exeExists \in BOOLEAN
  /\ callBudget = 1
  /\ faults = AllFaults
  /\ EngineConstructed
  /\ CLIdle
  /\ UtilsIdle

\* successive and overlapping runTestSuite calls on one engine whose
\* application may fail to launch
InitRuns ==
  /\ nPages = 2
  /\ cfgValid \in BOOLEAN
  /\ exeExists \in BOOLEAN
  /\ callBudget = MaxCalls
  /\ faults = {"launch"}
  /\ EngineConstructed
  /\ CLIdle
  /\ UtilsIdle

runTestSuite ==
  /\ \E r \in Runs : Call(r)
  /\ UNCHANGED utilVars

setupPhase ==
  /\ \E r \in Runs, launchOk \in Outcomes("launch", {TRUE}, {FALSE}) :
      SetupPhase(r, launchOk)
  /\ UNCHANGED <<ckVars, rtVars, wtVars, raVars, caVars, stVars, shotVars, trVars, extVars>>

scanningPhase ==
  /\ \E r \in Runs, windowOk \in WindowOutcomes("window") :
      ScanStart(r, windowOk)
  /\ UNCHANGED utilVars

navigateToPage ==
  /\ \E r \in Runs, p \in Pages, ok \in WindowOutcomes("nav"),
       shot \in BOOLEAN, moved \in BOOLEAN :
      NavigatePage(r, p, ok, shot, moved)
  /\ UNCHANGED utilVars

runAxeScan ==
  /\ \E r \in Runs, p \in Pages,
       primaryOk \in WindowOutcomes("scan"),
       legacyOk \in WindowOutcomes("scan") :
      ScanPage(r, p, primaryOk, legacyOk)
  /\ UNCHANGED utilVars

runExtraChecks ==
  /\ \E r \in Runs, p \in Pages :
       \E focus \in Outcomes("focus", {CleanFocus}, {ProblemFocus(p)}) :
          ExtraChecksPage(r, p, focus)
  /\ UNCHANGED <<ckVars, rtVars, wtVars, exVars, raVars, caVars, stVars,
                 trVars, extVars>>

pageTasksLoop ==
  /\ \E r \in Runs : ConcLoop(r)
  /\ UNCHANGED utilVars

pageTasksResume ==
  /\ \E r \in Runs : ConcResume(r)
  /\ UNCHANGED utilVars

pageTasksAll ==
  /\ \E r \in Runs : ConcAll(r)
  /\ UNCHANGED utilVars

reportingPhase ==
  /\ \E r \in Runs, outcome \in Outcomes("report", {"ok"}, {"failed", "threw"}) :
      ReportingPhase(r, outcome)
  /\ UNCHANGED <<ckVars, rtVars, wtVars, exVars, raVars, caVars, stVars,
                 shotVars, trVars, zmVars, axVars>>

cleanupPhase ==
  /\ \E r \in Runs : CleanupPhase(r)
  /\ UNCHANGED utilVars

emergencyCleanup ==
  /\ \E r \in Runs : EmergencyCleanup(r)
  /\ UNCHANGED utilVars

Next ==
  \/ runTestSuite
  \/ setupPhase
  \/ scanningPhase
  \/ navigateToPage
  \/ runAxeScan
  \/ runExtraChecks
  \/ pageTasksLoop
  \/ pageTasksResume
  \/ pageTasksAll
  \/ reportingPhase
  \/ cleanupPhase
  \/ emergencyCleanup

Spec == Init /\ [][Next]_vars

SpecRuns == InitRuns /\ [][Next]_vars

\* one runTestSuite call on a fresh engine and one stop() call, at any time
InitStop ==
  /\ nPages \in 1..MaxPages
  /\ cfgValid = TRUE
  /\ exeExists = TRUE
  /\ callBudget = 1
  /\ faults = AllFaults
  /\ EngineConstructed
  /\ CLIdle
  /\ CheckerIdle
  /\ RetryIdle
  /\ TimeoutIdle
  /\ ExIdle
  /\ ReportsIdle
  /\ CloseIdle
  /\ NoScreenshots
  /\ TreeIdle
  /\ ExtIdle
  /\ stPc = "idle"

stop ==
  /\ Stop
  /\ UNCHANGED <<clVars, engVars, ckVars, rtVars, wtVars, exVars, raVars,
                 caVars, shotVars, trVars, extVars>>

stopResumes ==
  /\ StopResumes
  /\ UNCHANGED <<clVars, cfgVars, resVars, runVars, scanVars, ckVars, rtVars,
                 wtVars, exVars, raVars, caVars, shotVars, trVars, extVars>>

NextStop == Next \/ stop \/ stopResumes

SpecStop == InitStop /\ [][NextStop]_vars

\* one runTestSuite call on pages where the keyboard-focus checker may find
\* problems and take screenshots
InitShots ==
  /\ nPages \in 1..MaxPages
  /\ cfgValid = TRUE
  /\ exeExists = TRUE
  /\ callBudget = 1
  /\ faults = AllFaults \cup {"focus"}
  /\ EngineConstructed
  /\ CLIdle
  /\ UtilsIdle

SpecShots == InitShots /\ [][Next]_vars

\* ---------------------------- specification: AccessibilityTreeChecker
\* the landmarks of a page: at most one of every role in `present`, in
\* the order of the tree, then `extra` further regions; the first
\* `unnamed` of them have no accessible name, the main landmark has
\* mainChildren children
PageLandmarks(present, extra, unnamed, mainChildren) ==
  LET roles == SelectSeq(LandmarkRoles, LAMBDA role : role \in present)
                 \o [i \in 1..extra |-> "region"]
  IN [k \in 1..Len(roles) |->
        [role |-> roles[k], named |-> k > unnamed,
         children |-> IF roles[k] = "main" THEN mainChildren ELSE 1]]

LandmarkLists ==
  {PageLandmarks(present, extra, unnamed, mainChildren) :
     present \in SUBSET Range(LandmarkRoles),
     extra \in 0..MaxExtra,
     unnamed \in 0..(Len(LandmarkRoles) + MaxExtra),
     mainChildren \in 0..1}

HeadingLists == UNION {[1..n -> HeadingLevels] : n \in 0..MaxHeadings}

InitTree ==
  /\ \/ /\ trPc = "landmarks"
        /\ landmarks \in LandmarkLists
        /\ headings = << >>
     \/ /\ trPc = "headings"
        /\ landmarks = << >>
        /\ headings \in HeadingLists
  /\ lmResult = NoLandmarkResult
  /\ orderIssues = << >>
  /\ TimeoutIdle
  /\ ExIdle
  /\ ReportsIdle
  /\ CloseIdle
  /\ StopIdle
  /\ NoScreenshots
  /\ ExtIdle
  /\ CheckerIdle
  /\ RetryIdle
  /\ CLIdle
  /\ nPages = 0
  /\ cfgValid = TRUE
  /\ exeExists = TRUE
  /\ callBudget = 0
  /\ faults = {}
  /\ EngineConstructed

trOthers == <<clVars, engVars, ckVars, rtVars, wtVars, exVars, raVars, caVars,
              stVars, shotVars, extVars>>

checkLandmarks == CheckLandmarks /\ UNCHANGED trOthers

checkHeadingOrder == CheckHeadings /\ UNCHANGED trOthers

NextTree == checkLandmarks \/ checkHeadingOrder

SpecTree == InitTree /\ [][NextTree]_vars

\* ---------------------------------------------------------------------
\* ZoomChecker (src/checkers/zoomChecker.js)
\* ---------------------------------------------------------------------

MaxLevels == 4

\* this.zoomLevels = [1.0, 1.25, 1.5, 2.0]
DefaultZoomLevels == <<100, 125, 150, 200>>

\* the multipliers a caller may put into options.zoomLevels
ZoomMultipliers == {100, 125, 150, 200, 300}

\* the values of options.maxZoom (its default is 2.0)
MaxZooms == {150, 200, 300}

\* window.innerWidth and window.innerHeight of the page
InnerWidth == 900

InnerHeight == 600

\* body.scrollWidth and body.scrollHeight the page may measure
ScrollWidths == {900, 910, 911, 1481}

ScrollHeights == {600, 611}

\* the numbers of significantly off-screen elements a page may have
OffScreenCounts == {5, 6}

RECURSIVE SortedLevels(_)
SortedLevels(S) ==
  IF S = {} THEN << >>
  ELSE LET m == CHOOSE x \in S : \A y \in S : x <= y
       IN  <<m>> \o SortedLevels(S \ {m})

ZoomLevelLists ==
  {DefaultZoomLevels} \cup
  {SortedLevels(S) : S \in {T \in SUBSET ZoomMultipliers :
                           Cardinality(T) \in 1..MaxLevels}}

\* layoutData.bodyScrollWidth > layoutData.windowInnerWidth + 10 || ...
Overflow(scrollWidth, scrollHeight) ==
  \/ scrollWidth > InnerWidth + 10
  \/ scrollHeight > InnerHeight + 10

\* offScreenElements.length > 5
SignificantBreakage(offScreen) == offScreen > 5

\* page.evaluate(() => { document.body.style.zoom = '' }): a call that
\* throws has not run the assignment
ResetZoom_Mut(zoom, ok) == zoom
ResetZoom(zoom, ok) == IF ok THEN 0 ELSE zoom

\* the index of the next level of the loop that is not above maxZoom
\* (levels above it are skipped by continue), Len + 1 when there is none
RECURSIVE NextLevel(_, _, _)
NextLevel(levels, limit, i) ==
  IF i > Len(levels) THEN i
  ELSE IF levels[i] > limit THEN NextLevel(levels, limit, i + 1)
  ELSE i

MaxOf(S) == CHOOSE x \in S : \A y \in S : x >= y

CalculateRecommendedZoom(tests) ==
  LET successfulZooms ==
        {tests[i].zoomLevel : i \in {j \in DOMAIN tests :
            tests[j].success /\ ~tests[j].overflow /\ ~tests[j].layoutBroken}}
      maxSuccessfulZoom ==
        IF successfulZooms # {} THEN MaxOf(successfulZooms) ELSE 100
  IN  [maxSupportedZoom |-> maxSuccessfulZoom,
       meetsWCAG        |-> maxSuccessfulZoom >= 200]

\* executeCheck(page, pageName, options) up to the first testZoomLevel
ZoomExecuteCheck ==
  /\ zmPc = "call"
  /\ zmPc' = "loop"
  /\ zmIdx' = NextLevel(zoomLevels, maxZoom, 1)
  /\ zoomTests' = << >>
  /\ UNCHANGED <<zoomLevels, maxZoom, pageZoom, zmCur, resetFailed,
                 recommendedZoomSupport>>

\* testZoomLevel: page.evaluate that applies the zoom
ZoomApply(ok) ==
  /\ zmPc = "loop"
  /\ zmIdx <= Len(zoomLevels)
  /\ pageZoom' = IF ok THEN zoomLevels[zmIdx] ELSE pageZoom
  /\ zmPc' = IF ok THEN "measure" ELSE "catch"
  /\ zmCur' = NoMeasure
  /\ UNCHANGED <<zoomLevels, maxZoom, zmIdx, resetFailed, zoomTests,
                 recommendedZoomSupport>>

\* testZoomLevel: the layout measure and checkLayoutBreakage
ZoomMeasure(ok, scrollWidth, scrollHeight, offScreen) ==
  /\ zmPc = "measure"
  /\ zmPc' = IF ok THEN "reset" ELSE "catch"
  /\ zmCur' = IF ok
              THEN [overflow     |-> Overflow(scrollWidth, scrollHeight),
                    layoutBroken |-> SignificantBreakage(offScreen)]
              ELSE NoMeasure
  /\ UNCHANGED <<zoomLevels, maxZoom, zmIdx, pageZoom, resetFailed, zoomTests,
                 recommendedZoomSupport>>

\* testZoomLevel: the reset of the try block and the return of the result
ZoomReset(ok) ==
  /\ zmPc = "reset"
  /\ pageZoom' = ResetZoom(pageZoom, ok)
  /\ IF ok
     THEN /\ zoomTests' = Append(zoomTests,
                 [zoomLevel |-> zoomLevels[zmIdx], success |-> TRUE,
                  overflow |-> zmCur.overflow,
                  layoutBroken |-> zmCur.layoutBroken])
          /\ zmIdx' = NextLevel(zoomLevels, maxZoom, zmIdx + 1)
          /\ zmPc' = "loop"
          /\ resetFailed' = FALSE
     ELSE /\ zmPc' = "catch"
          /\ UNCHANGED <<zoomTests, zmIdx, resetFailed>>
  /\ UNCHANGED <<zoomLevels, maxZoom, zmCur, recommendedZoomSupport>>

\* testZoomLevel: the catch block; an error of its reset is ignored
ZoomCatch(ok) ==
  /\ zmPc = "catch"
  /\ pageZoom' = ResetZoom(pageZoom, ok)
  /\ resetFailed' = ~ok
  /\ zoomTests' = Append(zoomTests,
         [zoomLevel |-> zoomLevels[zmIdx], success |-> FALSE,
          overflow |-> FALSE, layoutBroken |-> FALSE])
  /\ zmIdx' = NextLevel(zoomLevels, maxZoom, zmIdx + 1)
  /\ zmPc' = "loop"
  /\ UNCHANGED <<zoomLevels, maxZoom, zmCur, recommendedZoomSupport>>

\* executeCheck after the loop: results.summary
ZoomSummary ==
  /\ zmPc = "loop"
  /\ zmIdx > Len(zoomLevels)
  /\ recommendedZoomSupport' = CalculateRecommendedZoom(zoomTests)
  /\ zmPc' = "done"
  /\ UNCHANGED <<zoomLevels, maxZoom, zmIdx, pageZoom, zmCur, resetFailed,
                 zoomTests>>

InitZoom ==
  /\ zmPc = "call"
  /\ zoomLevels \in ZoomLevelLists
  /\ maxZoom \in MaxZooms
  /\ zmIdx = 0
  /\ pageZoom = 0
  /\ zmCur = NoMeasure
  /\ resetFailed = FALSE
  /\ zoomTests = << >>
  /\ recommendedZoomSupport = NoRecommendation
  /\ JsonIdle
  /\ AxeIdle
  /\ CoreAuxIdle
  /\ CheckerIdle
  /\ RetryIdle
  /\ CLIdle
  /\ nPages = 0
  /\ cfgValid = TRUE
  /\ exeExists = TRUE
  /\ callBudget = 0
  /\ faults = {}
  /\ EngineConstructed

zmOthers == <<clVars, engVars, ckVars, rtVars, wtVars, exVars, raVars, caVars,
              stVars, shotVars, trVars, jsVars, axVars>>

zoomExecuteCheck == ZoomExecuteCheck /\ UNCHANGED zmOthers

zoomApply == (\E ok \in BOOLEAN : ZoomApply(ok)) /\ UNCHANGED zmOthers

zoomMeasure ==
  /\ \E ok \in BOOLEAN, w \in ScrollWidths, h \in ScrollHeights,
        n \in OffScreenCounts : ZoomMeasure(ok, w, h, n)
  /\ UNCHANGED zmOthers

zoomReset == (\E ok \in BOOLEAN : ZoomReset(ok)) /\ UNCHANGED zmOthers

zoomCatch == (\E ok \in BOOLEAN : ZoomCatch(ok)) /\ UNCHANGED zmOthers

zoomSummary == ZoomSummary /\ UNCHANGED zmOthers

NextZoom ==
  \/ zoomExecuteCheck
  \/ zoomApply
  \/ zoomMeasure
  \/ zoomReset
  \/ zoomCatch
  \/ zoomSummary

SpecZoom == InitZoom /\ [][NextZoom]_vars

\* ---------------------------------------------------------------------
\* AxeScanner.scanPage, its callers runAxeScan and ColorContrastChecker
\* (core/axeScanner.js, core/legacyScanner.js, checkers/colorContrastChecker.js)
\* ---------------------------------------------------------------------

MaxScans == 3

\* catch block of scanPage: { violations: [], ..., error: error.message }
ScanPageCatch_Mut(message) == AxeRun
ScanPageCatch(message) == EmptyResult(message)

\* withTimeout(page.evaluate(axe.run), this.config.timeout, message): `order`
\* says which of the run and the timer settles first, "never" that the run
\* does not settle at all
ScanRace(order, own) ==
  LET timer == TimeoutError("Axe scan timeout")
  IN  IF order = "own" THEN RaceSettle(RaceSettle(Pending, own), timer)
      ELSE IF order = "timer" THEN RaceSettle(RaceSettle(Pending, timer), own)
      ELSE RaceSettle(Pending, timer)

\* ColorContrastChecker.executeCheck, try branch: the processed results are
\* built from results.violations and results.passes only
ContrastExecuteCheck(scanned) ==
  [error |-> "none", totalViolations |-> Len(scanned.violations)]

\* BaseChecker.run of the contrast checker: result.success = !result.error
ContrastRun(scanned) ==
  LET result == ContrastExecuteCheck(scanned)
  IN  [success |-> result.error = "none", error |-> result.error,
       totalViolations |-> result.totalViolations, ran |-> TRUE]

\* a scanner enters scanPage
ScanPageStart(s) ==
  /\ axPc = "idle"
  /\ scans < MaxScans
  /\ axPc' = "inject"
  /\ axWho' = s
  /\ scans' = scans + 1
  /\ runSettled' = "none"
  /\ scanResult' = EmptyResult("none")
  /\ legacyInvoked' = FALSE
  /\ UNCHANGED <<windowAxe, injections, axeInjected, contrastResult>>

\* ensureAxeInjected(page) and, when it returns false, the catch block of
\* scanPage
EnsureAxeInjected(injectOk) ==
  /\ axPc = "inject"
  /\ IF axeInjected[axWho] /\ windowAxe
       THEN /\ axPc' = "run"
            /\ UNCHANGED <<windowAxe, injections, axeInjected, scanResult>>
       ELSE IF injectOk
         THEN /\ injections' = injections + 1
              /\ windowAxe' = TRUE
              /\ axeInjected' = [axeInjected EXCEPT ![axWho] = TRUE]
              /\ axPc' = "run"
              /\ UNCHANGED scanResult
         ELSE /\ scanResult' = ScanPageCatch("Failed to inject axe-core")
              /\ axPc' = "returned"
              /\ UNCHANGED <<windowAxe, injections, axeInjected>>
  /\ UNCHANGED <<axWho, runSettled, legacyInvoked, contrastResult, scans>>

\* scanPage from the withTimeout call to its return
AxeRunSettles(order, own) ==
  /\ axPc = "run"
  /\ LET raced == ScanRace(order, own)
     IN  scanResult' = IF raced.kind = "value" THEN AxeRun
                                               ELSE ScanPageCatch(raced.val)
  /\ runSettled' = IF order = "own" THEN own.kind ELSE "timeout"
  /\ axPc' = "returned"
  /\ UNCHANGED <<axWho, windowAxe, injections, axeInjected, legacyInvoked,
                 contrastResult, scans>>

\* runAxeScan after the primary scanPage: the fallback is called when the
\* result is rejected; LegacyScanner.injectAxe injects unless window.axe is
\* defined
RunAxeScanResumes(legacyOk) ==
  /\ axPc = "returned"
  /\ axWho = "primary"
  /\ legacyInvoked' = PrimaryRejected(scanResult)
  /\ IF PrimaryRejected(scanResult) /\ ~windowAxe /\ legacyOk
       THEN injections' = injections + 1 /\ windowAxe' = TRUE
       ELSE UNCHANGED <<injections, windowAxe>>
  /\ axPc' = "idle"
  /\ UNCHANGED <<axWho, axeInjected, runSettled, scanResult, contrastResult,
                 scans>>

\* ColorContrastChecker.executeCheck after scanTargeted, and BaseChecker.run
ContrastCheckResumes ==
  /\ axPc = "returned"
  /\ axWho = "contrast"
  /\ contrastResult' = ContrastRun(scanResult)
  /\ axPc' = "idle"
  /\ UNCHANGED <<axWho, windowAxe, injections, axeInjected, runSettled,
                 scanResult, legacyInvoked, scans>>

\* the window loads a new document: the page context is replaced
PageReloads ==
  /\ axPc = "idle"
  /\ windowAxe
  /\ windowAxe' = FALSE
  /\ injections' = 0
  /\ UNCHANGED <<axPc, axWho, axeInjected, runSettled, scanResult,
                 legacyInvoked, contrastResult, scans>>

InitAxe ==
  /\ axPc = "idle"
  /\ axWho = "primary"
  /\ windowAxe = FALSE
  /\ injections = 0
  /\ axeInjected = [s \in Scanners |-> FALSE]
  /\ runSettled = "none"
  /\ scanResult = EmptyResult("none")
  /\ legacyInvoked = FALSE
  /\ contrastResult = NoContrastResult
  /\ scans = 0
  /\ ZoomIdle
  /\ JsonIdle
  /\ CoreAuxIdle
  /\ CheckerIdle
  /\ RetryIdle
  /\ CLIdle
  /\ nPages = 0
  /\ cfgValid = TRUE
  /\ exeExists = TRUE
  /\ callBudget = 0
  /\ faults = {}
  /\ EngineConstructed

axOthers == <<clVars, engVars, ckVars, rtVars, wtVars, exVars, raVars, caVars,
              stVars, shotVars, trVars, zmVars, jsVars>>

scanPageStart == (\E s \in Scanners : ScanPageStart(s)) /\ UNCHANGED axOthers

ensureAxeInjected ==
  (\E ok \in BOOLEAN : EnsureAxeInjected(ok)) /\ UNCHANGED axOthers

axeRunSettles ==
  /\ \E order \in {"own", "timer", "never"}, own \in OwnOutcomes :
        AxeRunSettles(order, own)
  /\ UNCHANGED axOthers

runAxeScanResumes ==
  (\E ok \in BOOLEAN : RunAxeScanResumes(ok)) /\ UNCHANGED axOthers

contrastCheckResumes == ContrastCheckResumes /\ UNCHANGED axOthers

pageReloads == PageReloads /\ UNCHANGED axOthers

NextAxe ==
  \/ scanPageStart
  \/ ensureAxeInjected
  \/ axeRunSettles
  \/ runAxeScanResumes
  \/ contrastCheckResumes
  \/ pageReloads

SpecAxe == InitAxe /\ [][NextAxe]_vars

\* ================================================================ claims

InFlight == {i \in TaskIds : tStatus[i] = "running"}

\* C1: during concurrentLimit(tasks, limit) with limit >= 1 the number of
\* tasks started and not yet settled never exceeds limit; with limit 1 no
\* task starts before the previous one has settled.
C1_BoundedInFlight ==
  (clPc # "call" /\ concurrency >= 1) =>
     /\ Cardinality(InFlight) <= concurrency
     /\ concurrency = 1 =>
          \A i \in TaskIds :
            (i > 1 /\ tStatus[i] \in {"running", "resolved", "rejected"})
               => Settled(i - 1)

C1_Witness ==
  /\ concurrency = 2
  /\ Len(tasks) = 3
  /\ Cardinality(InFlight) = 2
  /\ clPc = "race"
  /\ tStatus[3] = "none"

\* C2: when all tasks succeed, concurrentLimit returns an array whose i-th
\* element is the result of the i-th input task, for every completion order.
C2_InputOrder ==
  (clPc = "done" /\ \A i \in TaskIds : tasks[i].ok) =>
     /\ Len(clReturn) = Len(tasks)
     /\ \A i \in TaskIds : clReturn[i] = tasks[i].val

C2_Witness ==
  /\ clPc = "done"
  /\ Len(tasks) = 3
  /\ settleOrder = <<2, 1, 3>>
  /\ tasks[1].val # tasks[2].val
  /\ clReturn = <<tasks[1].val, tasks[2].val, tasks[3].val>>

\* the scanning phase of call r is over (returned or threw)
ScanOver(r) == rpc[r] \in {"report", "cleanup", "emergency"}

PhasesOf(errs) == {errs[k].phase : k \in 1..Len(errs)}

PagesOf(s) == {s[k].page : k \in 1..Len(s)}

C4_TwoPageScenario ==
  [][( /\ nPages = 2
       /\ rpc[1] # "resolved" /\ rpc'[1] = "resolved"
       /\ ropt[1].continueOnError
       /\ pagePc = <<"done", "failed">>
       /\ \A k \in 1..Len(axeResults) : axeResults[k].tag = "primary"
       /\ "reporting" \notin PhasesOf(errors)
       /\ 0 \notin Range(warnings) )
     => /\ Len(rret'[1].axeResults) = 1
        /\ rret'[1].axeResults[1].page = 1
        /\ rret'[1].errors = <<ErrorRecord("page_processing", 2)>>
        /\ rret'[1].success = FALSE]_vars

\* C5: when the scanning phase of a run on a fresh engine has finished,
\* axeResults and extraResults have as many entries as there are pages whose
\* navigation succeeded, and a page whose navigation failed has an entry in
\* neither list, only in the errors list.
C5_ResultCounts ==
  ScanOver(1) =>
     /\ Len(axeResults) = Cardinality(navOk)
     /\ Len(extraResults) = Cardinality(navOk)
     /\ \A p \in Pages :
          pagePc[p] = "failed" =>
             /\ p \notin PagesOf(axeResults)
             /\ p \notin PagesOf(extraResults)
             /\ p \in PagesOf(errors)

C5_Witness ==
  /\ rpc[1] = "report"
  /\ nPages = 2
  /\ navOk = {2}
  /\ pagePc = <<"failed", "done">>
  /\ Len(axeResults) = 1
  /\ Len(extraResults) = 1

\* C6: every accepted runTestSuite call resolves with a result object,
\* whichever phase failed, and in that result success is true exactly when
\* the errors list is empty.
C6_SuccessIffNoErrors ==
  \A r \in Runs :
    /\ rpc[r] # "rejected"
    /\ rpc[r] = "resolved" =>
         (rret[r].success <=> Len(rret[r].errors) = 0)

C6_Witness ==
  /\ rpc[1] = "resolved"
  /\ PhasesOf(rret[1].errors) = {"reporting"}
  /\ ~rret[1].success

\* C7: for every outcome of a run, by the time runTestSuite settles closeApp
\* has been invoked and appManager.isRunning() is false.
C7_ClosedOnSettle ==
  \A r \in Runs :
    rpc[r] = "resolved" => (rClosed[r] /\ ~electronApp)

C7_Witness ==
  /\ rpc[1] = "resolved"
  /\ "scanning" \in PhasesOf(rret[1].errors)
  /\ rClosed[1]
  /\ ~electronApp

\* C8: with continueOnError = false, once a page's processing has failed no
\* further page is started and the suite aborts instead of going on to the
\* reporting phase, for every concurrency setting.
C8_AbortOnPageFailure ==
  [][\A r \in Runs :
       ( /\ rpc[r] \in {"seq", "conc"}
         /\ ~ropt[r].continueOnError
         /\ \E q \in Pages : pagePc[q] = "failed" )
       => /\ \A p \in Pages : pagePc[p] = "none" => pagePc'[p] = "none"
          /\ rpc'[r] # "report"]_vars

\* C9: with page concurrency > 1 a failing page does not stop the others:
\* when the scanning phase returns every configured page has run to
\* completion or to its own failure, and the scanning phase never fails
\* once page tasks have been started.
C9_SiblingsSurvive ==
  \A r \in Runs :
    ropt[r].concurrency > 1 =>
       /\ rpc[r] \in {"report", "cleanup"} =>
            \A p \in Pages : pagePc[p] \in {"done", "failed"}
       /\ (Active(r) /\ "scanning" \in PhasesOf(errors)) =>
            \A p \in Pages : pagePc[p] = "none"

C9_Witness ==
  /\ rpc[1] = "report"
  /\ ropt[1].concurrency = 2
  /\ nPages = 2
  /\ pagePc = <<"failed", "done">>
  /\ settleOrder = <<1, 2>>

Ascending(s) == \A j, k \in 1..Len(s) : j < k => s[j].page < s[k].page

\* C10: with page concurrency > 1, axeResults and extraResults hold the
\* pages' results in the configured page order, whatever order the pages
\* complete in.
C10_ConfiguredOrder ==
  \A r \in Runs :
    (ropt[r].concurrency > 1 /\ rpc[r] = "report") =>
       (Ascending(axeResults) /\ Ascending(extraResults))

\* C11: only one page is current on the shared window at a time: from a
\* page's navigation to the end of its scan and extra checks no other page
\* is navigated to, so while a page is being scanned or checked the window
\* shows that page, for every configured page concurrency.
C11_OnePageCurrent ==
  \A p \in Pages : pagePc[p] \in {"scan", "extra"} => currentPage = p

\* the scan calls in which the primary and the legacy scan both failed
TotalFailure(e) == ~e.primaryOk /\ e.legacyInvoked /\ ~e.legacyOk

\* C12: runAxeScan never throws (every page that is past its scan has a
\* recorded result); its result is tagged usedLegacyFallback = true exactly
\* when the primary scan failed and the legacy scan succeeded, and then its
\* violations array is defined; when the primary scan succeeds the legacy
\* scanner is not invoked and the result carries no fallback tag.
C12_FallbackTag ==
  /\ \A p \in Pages :
       pagePc[p] \in {"extra", "done"} => p \in PagesOf(axeResults)
  /\ \A k \in 1..Len(axeResults) :
       LET e == axeResults[k]
       IN /\ e.result.usedLegacyFallback <=> (~e.primaryOk /\ e.legacyOk)
          /\ e.result.usedLegacyFallback =>
               e.result.violations \in Seq({"v"})
          /\ e.primaryOk =>
               /\ ~e.legacyInvoked
               /\ ~e.result.usedLegacyFallback
               /\ ~e.result.failedFallback

C12_Witness ==
  /\ Len(axeResults) = 2
  /\ axeResults[1].primaryOk
  /\ ~axeResults[1].legacyInvoked
  /\ ~axeResults[2].primaryOk
  /\ axeResults[2].legacyOk
  /\ axeResults[2].result.usedLegacyFallback
  /\ axeResults[2].result.violations = <<"v">>

\* C13: when the primary and the legacy scan both fail for a page,
\* runAxeScan returns empty violations, passes, incomplete and inapplicable
\* lists, failedFallback = true and the legacy scan's error message, and the
\* suite goes on (to that page's checks and then the next configured page)
\* instead of aborting.
C13_BothScansFail ==
  \A k \in 1..Len(axeResults) :
    LET e == axeResults[k]
    IN TotalFailure(e) =>
         /\ e.result.violations = << >>
         /\ e.result.passes = << >>
         /\ e.result.incomplete = << >>
         /\ e.result.inapplicable = << >>
         /\ e.result.failedFallback
         /\ e.result.error = "legacyError"
         /\ \A r \in Runs :
              Active(r) =>
                /\ pagePc[e.page] \in {"extra", "done"}
                /\ (rpc[r] = "seq" /\ pagePc[e.page] = "done") =>
                     (e.page < nPages /\ pagePc[e.page + 1] # "none")

C13_Witness ==
  /\ rpc[1] = "seq"
  /\ nPages = 2
  /\ Len(axeResults) = 1
  /\ TotalFailure(axeResults[1])
  /\ axeResults[1].result.failedFallback
  /\ pagePc = <<"done", "scan">>

\* C14: when both the primary and the fallback scan fail for a page, an
\* error record for that page is appended to the errors list and the page's
\* processing is aborted: its extra checks are not run.
C14_TotalFailureAborts ==
  \A k \in 1..Len(axeResults) :
    TotalFailure(axeResults[k]) =>
       /\ axeResults[k].page \in PagesOf(errors)
       /\ axeResults[k].page \notin PagesOf(extraResults)

\* runAllChecks is past its sort
ChecksRunning == ckPc \in {"seq", "conc", "done"}

\* runSingleCheck of the checker at sorted index i has resolved
CheckFinished(i) == ckOut[i].outcome # "none"

\* checker.run of the checker at sorted index i has been called
CheckStarted(i) ==
  \/ CheckFinished(i)
  \/ ckPc = "seq" /\ i = ckIdx
  \/ ckPc = "conc" /\ tStatus[i] = "running"

CheckerIds == {checkers[i].id : i \in 1..Len(checkers)}

ChecksWith(kinds) == {i \in 1..Len(checkers) : ckOut[i].outcome \in kinds}

\* C16: in the summary returned by runAllChecks, failed counts the checkers
\* whose result is negative without an exception, errors counts the checkers
\* that threw (or reported an error), passed counts the rest, and
\* successRate = round(passed / total * 100); with one throwing, one
\* negative and one succeeding checker that is 1/1/1 and 33.
C16_SummaryCounts ==
  ckPc = "done" =>
     LET sm == ckResults.summary
         neg == Cardinality(ChecksWith({"negative"}))
         thr == Cardinality(ChecksWith({"throws", "error"}))
     IN /\ sm.failed = neg
        /\ sm.errors = thr
        /\ sm.passed = sm.totalChecks - neg - thr
        /\ sm.totalChecks > 0 =>
             /\ 2 * (100 * sm.passed - sm.successRate * sm.totalChecks)
                  <= sm.totalChecks
             /\ 2 * (sm.successRate * sm.totalChecks - 100 * sm.passed)
                  < sm.totalChecks
        /\ (sm.totalChecks = 3 /\ neg = 1 /\ thr = 1) =>
             /\ <<sm.errors, sm.failed, sm.passed>> = <<1, 1, 1>>
             /\ sm.successRate = 33

\* C17: runAllChecks runs only checkers whose isEnabled() is true: a checker
\* that reports itself disabled is never run, whether it was registered at
\* construction or added later with addChecker.
C17_OnlyEnabledRun ==
  ChecksRunning =>
     \A i \in 1..Len(checkers) : ~checkers[i].enabled => ~CheckStarted(i)

\* C18: when the configured concurrency is 1, runAllChecks runs the checkers
\* strictly one at a time in ascending priority order, checkers of equal
\* priority in registration order: a checker starts only after every checker
\* sorted before it has finished.
C18_SequentialByPriority ==
  (ChecksRunning /\ maxConcurrency = 1) =>
     \A j, k \in 1..Len(checkers) :
       j < k =>
         /\ \/ checkers[j].priority < checkers[k].priority
            \/ /\ checkers[j].priority = checkers[k].priority
               /\ checkers[j].id < checkers[k].id
         /\ CheckStarted(k) => CheckFinished(j)

C18_Witness ==
  /\ maxConcurrency = 1
  /\ ckPc = "seq"
  /\ Len(checkers) = 3
  /\ <<checkers[1].id, checkers[2].id, checkers[3].id>> = <<2, 1, 3>>
  /\ checkers[2].priority = checkers[3].priority
  /\ ckIdx = 2
  /\ CheckFinished(1)
  /\ ~CheckFinished(2)

\* the retry call has settled
RetrySettled == rtPc \in {"returned", "threw"}

\* the invocations (within maxAttempts) after which retry does not go on
Decisive ==
  {n \in 1..rtOptions.maxAttempts :
     n > rtFn.failures \/ n \in rtFn.fatal \/ n = rtOptions.maxAttempts}

\* C19: retry invokes the operation until it first succeeds, first fails
\* with an error for which retryCondition returns false, or has been invoked
\* maxAttempts times, and its outcome is the outcome of that last invocation;
\* an operation failing k < maxAttempts times (retryably) and then succeeding
\* is invoked exactly k + 1 times and yields the success value; with
\* retryCondition returning false the failing operation is invoked exactly
\* once and its error is rethrown unmodified.
C19_RetryOutcome ==
  /\ \A n \in Decisive : calls <= n
  /\ RetrySettled =>
       /\ calls \in Decisive \/ (calls = 0 /\ rtOptions.maxAttempts = 0)
       /\ calls >= 1 =>
            rtResult = IF calls > rtFn.failures
                         THEN [kind |-> "value", val |-> 7]
                         ELSE [kind |-> "error", val |-> calls]
       /\ ( /\ rtFn.failures < rtOptions.maxAttempts
            /\ rtFn.fatal \cap (1..rtFn.failures) = {} )
          => /\ calls = rtFn.failures + 1
             /\ rtResult = [kind |-> "value", val |-> 7]
       /\ ( /\ rtOptions.maxAttempts >= 1
            /\ rtFn.failures >= 1
            /\ rtFn.fatal = 1..MaxAttempts )
          => /\ calls = 1
             /\ rtResult = [kind |-> "error", val |-> 1]

C19_Witness ==
  /\ rtPc = "returned"
  /\ rtOptions.maxAttempts = 3
  /\ rtFn.failures = 2
  /\ calls = 3
  /\ lastError = 2
  /\ rtResult = [kind |-> "value", val |-> 7]

\* C20: retry waits only between attempts and never after the final one: a
\* retry that exhausts maxAttempts >= 1 performs exactly maxAttempts - 1
\* waits and then rethrows the last error, and the wait after failed attempt
\* n is min(baseDelay * backoffFactor^(n-1), maxDelay).
C20_WaitsBetweenAttempts ==
  /\ \A n \in 1..Len(waits) :
       LET d == rtOptions.baseDelay * Pow(rtOptions.backoffFactor, n - 1)
       IN waits[n] = IF d <= rtOptions.maxDelay THEN d
                                               ELSE rtOptions.maxDelay
  /\ Len(waits) <= calls
  /\ RetrySettled => (calls >= 1 => Len(waits) = calls - 1)
  /\ ( /\ rtPc = "threw"
       /\ rtOptions.maxAttempts >= 1
       /\ calls = rtOptions.maxAttempts
       /\ rtFn.fatal \cap (1..rtOptions.maxAttempts) = {} )
     => /\ Len(waits) = rtOptions.maxAttempts - 1
        /\ rtResult = [kind |-> "error", val |-> rtOptions.maxAttempts]

C20_Witness ==
  /\ rtPc = "threw"
  /\ rtOptions.maxAttempts = 3
  /\ rtOptions.baseDelay = 3
  /\ rtOptions.backoffFactor = 2
  /\ calls = 3
  /\ waits = <<3, 4>>
  /\ rtResult = [kind |-> "error", val |-> 3]

\* C21: withTimeout settles with the operation's own outcome when the
\* operation settles before the timeout elapses, and with the error carrying
\* the timeout message when the timer fires first; whatever settles later
\* leaves the result as it is.
C21_TimeoutRace ==
  /\ wtPc = "pending" => wtResult = Pending /\ wtEvents = << >>
  /\ wtPc = "settled" =>
       /\ wtEvents # << >>
       /\ wtEvents[1] = "promise" => wtResult = OwnOutcome(wtPromise)
       /\ wtEvents[1] = "timer" => wtResult = TimeoutError(timeoutMessage)
       /\ (wtPromise.at >= 0 /\ wtPromise.at < timeoutMs) =>
            wtEvents[1] = "promise"

\* the timer fired first and the operation failed of its own afterwards
C21_Witness ==
  /\ wtEvents = <<"timer", "promise">>
  /\ wtPromise.kind = "error"
  /\ wtResult = TimeoutError(timeoutMessage)

\* C22: in concurrentLimit every task of the list is invoked exactly once,
\* also when a task fails: once the call has settled and nothing is left
\* running, every task of the list has been started and has settled.
C22_EveryTaskInvoked ==
  (clPc \in {"done", "rejected"} /\ InFlight = {}) =>
    \A i \in TaskIds : tStatus[i] \in {"resolved", "rejected"}

\* C23: if configuration validation or the application launch fails the
\* suite aborts before scanning: electron.launch is never called when the
\* executable path does not exist (nor when validation fails), and once the
\* setup failure is recorded no page is navigated or scanned, the reporting
\* phase leaves no trace, and the call returns success = false.
C23_SetupFailureAborts ==
  /\ (~exeExists \/ ~ValidateConfiguration) => launchCalls = 0
  /\ \A r \in Runs :
       (~exeExists \/ ~ValidateConfiguration) =>
          rpc[r] \in {"none", "setup", "emergency", "resolved"}
  /\ "setup" \in PhasesOf(errors) =>
       /\ \A r \in Runs : rpc[r] \in {"none", "emergency", "resolved"}
       /\ axeResults = << >>
       /\ extraResults = << >>
       /\ navOk = {}
       /\ currentPage = 0
       /\ \A p \in Pages : pagePc[p] = "none"
       /\ mainWindow = FALSE
       /\ "reporting" \notin PhasesOf(errors)
       /\ warnings = << >>
       /\ \A r \in Runs : rpc[r] = "resolved" => ~rret[r].success

\* the executable is missing and the call has returned
C23_Witness ==
  /\ ~exeExists
  /\ ValidateConfiguration
  /\ rpc[1] = "resolved"
  /\ ~rret[1].success
  /\ PhasesOf(rret[1].errors) = {"setup", "unknown"}
  /\ launchCalls = 0

\* C24: a failure to generate a report never fails the suite: the reporting
\* phase adds nothing to the errors list, whatever its outcome, so a run
\* whose earlier phases logged no error continues with an empty errors list.
C24_ReportFailureIsWarning ==
  [][\A r \in Runs :
       (rpc[r] = "report" /\ rpc'[r] # "report") =>
          /\ errors' = errors
          /\ rpc'[r] = "cleanup"]_vars

\* C25: during generateAllReports at most 2 report-format generations are
\* in progress at any instant, for any number of requested formats.
C25_TwoGenerationsAtMost == Cardinality(Generating) <= ReportConcurrency

\* C26: closeApp never throws; it attempts the forced termination only after
\* the graceful close has failed or timed out, and always then; on every
\* path it clears the application and window handles, so isRunning() is
\* false once closeApp has returned; with no application it attempts
\* neither the graceful close nor the forced termination.
C26_CloseApp ==
  [][/\ caPc' \in {"call", "graceful", "returned"}
     /\ caPc' = "returned" => (~AppIsRunning' /\ ~mainWindow')
     /\ forced' # "none" =>
          (closeCalls' = 1 /\ wtPc' = "settled" /\ wtResult'.kind = "error")
     /\ (caPc' = "returned" /\ closeCalls' = 1 /\ wtResult'.kind = "error")
          => forced' # "none"
     /\ (caPc = "call" /\ ~electronApp) =>
          (caPc' = "returned" /\ closeCalls' = 0 /\ forced' = "none")
     /\ (caPc = "call" /\ electronApp) => closeCalls' = 1]_vars

\* the graceful close hung, the timer fired, the forced termination failed
\* as well, and closeApp has returned with the handles cleared
C26_Witness ==
  /\ caPc = "returned"
  /\ closeCalls = 1
  /\ wtPromise.at = -1
  /\ wtResult = TimeoutError("App close timeout")
  /\ forced = "failed"
  /\ ~AppIsRunning

\* C27: after stop() has returned on an engine with a run in progress, that
\* run starts no further phase: it enters neither the scanning nor the
\* reporting phase and starts no further page; it only winds down.
C27_StopPreventsPhases ==
  [][stPc = "done" =>
       /\ \A r \in Runs :
            rpc'[r] # rpc[r] => rpc'[r] \in {"cleanup", "emergency", "resolved"}
       /\ \A p \in DOMAIN pagePc :
            (pagePc[p] = "none" /\ p \in DOMAIN pagePc') => pagePc'[p] = "none"]_vars

\* C28: after a page has been processed, every screenshot path the
\* keyboard-focus checker produced for that page is contained in the
\* run-wide screenshots list.
C28_ScreenshotsCollected ==
  \A k \in 1..Len(extraResults) :
     Range(extraResults[k].checks.KeyboardFocusChecker.screenshots)
        \subseteq Range(screenshots)

\* C29 (as stated): the landmark score is 100 for a page with all five
\* required landmarks, no landmark issues and at least 3 landmarks, 60 for
\* a page that misses two of the five required landmarks and has no
\* landmark issues, and always within 0..100.
C29_LandmarkScoreAsStated ==
  (trPc = "done" /\ lmResult # NoLandmarkResult) =>
    /\ lmResult.score \in 0..100
    /\ (lmResult.missing = << >> /\ lmResult.issues = << >>
          /\ Len(landmarks) >= 3) => lmResult.score = 100
    /\ (Len(lmResult.missing) = 2 /\ lmResult.issues = << >>)
          => lmResult.score = 60

\* C29 (amended): the landmark score is 100 for a page with all five
\* required landmarks, no landmark issues and at least 3 landmarks, 70 for
\* a page that misses two of the five required landmarks and has no
\* landmark issues (such a page has at least 3 landmarks, so the bonus
\* applies: 100 - 40 + 10), and always within 0..100.
C29_LandmarkScore ==
  (trPc = "done" /\ lmResult # NoLandmarkResult) =>
    /\ lmResult.score \in 0..100
    /\ (lmResult.missing = << >> /\ lmResult.issues = << >>
          /\ Len(landmarks) >= 3) => lmResult.score = 100
    /\ (Len(lmResult.missing) = 2 /\ lmResult.issues = << >>)
          => lmResult.score = 70

\* a page with banner, main and navigation only, all named, scored
C29_Witness ==
  /\ trPc = "done"
  /\ PresentLandmarks(landmarks) = <<"banner", "main", "navigation">>
  /\ lmResult.missing = <<"complementary", "contentinfo">>
  /\ lmResult.issues = << >>
  /\ lmResult.score = 70

SkipsAt(levels) == {i \in 2..Len(levels) : levels[i] > levels[i - 1] + 1}

\* C30: for every sequence of heading levels checkHeadingOrder reports
\* exactly one order issue for each heading whose level exceeds the level
\* of the heading before it by more than one, and none for any other
\* heading: [1,2,4] gives exactly one issue (from 2 to 4), [1,2,3] none.
C30_HeadingOrder ==
  (trPc = "done" /\ landmarks = << >> /\ lmResult = NoLandmarkResult) =>
    /\ Len(orderIssues) = Cardinality(SkipsAt(headings))
    /\ \A i \in SkipsAt(headings) :
         Cardinality({k \in 1..Len(orderIssues) :
                        orderIssues[k] = [index |-> i - 1,
                                          from |-> headings[i - 1],
                                          to |-> headings[i]]}) = 1
    /\ headings = <<1, 2, 4>> =>
         orderIssues = <<[index |-> 2, from |-> 2, to |-> 4]>>
    /\ headings = <<1, 2, 3>> => orderIssues = << >>

\* the levels 1, 2, 4 have been checked
C30_Witness ==
  /\ trPc = "done"
  /\ headings = <<1, 2, 4>>
  /\ Len(orderIssues) = 1

\* C31: the recommendation of a finished zoom check has meetsWCAG = TRUE
\* only if the 200% level was tested and showed neither overflow nor layout
\* breakage, and whenever the test of the 200% level shows overflow,
\* meetsWCAG is FALSE.
C31_MeetsWCAG ==
  zmPc = "done" =>
    /\ recommendedZoomSupport.meetsWCAG =>
         \E i \in DOMAIN zoomTests :
            /\ zoomTests[i].zoomLevel = 200
            /\ zoomTests[i].success
            /\ ~zoomTests[i].overflow
            /\ ~zoomTests[i].layoutBroken
    /\ (\E i \in DOMAIN zoomTests :
           zoomTests[i].zoomLevel = 200 /\ zoomTests[i].overflow)
         => ~recommendedZoomSupport.meetsWCAG

CheckerOfType(t) ==
  CASE t = "contrast"          -> "ColorContrastChecker"
    [] t = "keyboardFocus"     -> "KeyboardFocusChecker"
    [] t = "zoom"              -> "ZoomChecker"
    [] t = "accessibilityTree" -> "AccessibilityTreeChecker"

\* C32: the statistics of a JSON report of the run's result count, for each
\* checker type, one entry per page on which that checker ran, and give
\* its success rate as round(successful / total * 100) over those pages.
C32_ExtraStats ==
  extraStats.generated =>
    \A t \in CheckTypes :
      LET ran == {k \in DOMAIN extraResults :
                    CheckerOfType(t) \in DOMAIN extraResults[k].checks}
      IN  /\ extraStats.checks[t].total = Cardinality(ran)
          /\ Cardinality(ran) > 0 =>
               extraStats.checks[t].successRate =
                 RoundPercent(extraStats.checks[t].successful,
                              Cardinality(ran))

\* C33: while a run that was called with skipExtraChecks is in progress,
\* CheckerManager.runAllChecks has been invoked for no page: the run has
\* collected no extra-check result, only rule-engine results.
C33_ExtraChecksSkipped ==
  \A r \in Runs :
     (rpc[r] \notin {"none", "rejected"} /\ ropt[r].skipExtraChecks)
        => extraResults = << >>

\* C34: when axe.run of a scanPage call does not settle within the timeout
\* or fails, scanPage returns a result that carries an error, and runAxeScan
\* then invokes the fallback scanner.
C34_FailedPrimaryFallsBack ==
  [][/\ (axPc' = "returned" /\ runSettled' \in {"timeout", "error"})
          => scanResult'.error # "none"
     /\ (axPc = "returned" /\ axWho = "primary"
           /\ runSettled \in {"timeout", "error"} /\ axPc' = "idle")
          => legacyInvoked']_vars

\* runAxeScan has called the fallback after a primary run that timed out
C34_Witness ==
  /\ axPc = "idle"
  /\ axWho = "primary"
  /\ runSettled = "timeout"
  /\ scanResult.error = "Axe scan timeout"
  /\ legacyInvoked

\* C35: whenever window.axe is already defined on the page, whichever
\* scanner injected it, ensureAxeInjected injects nothing further.
C35_InjectedAtMostOnce ==
  [][(axPc = "inject" /\ windowAxe) => injections' = injections]_vars

\* C39: when the targeted scan of the contrast checker fails, the result of
\* the contrast checker has success = FALSE and carries the error.
C39_ContrastFailureReported ==
  [][(axPc = "returned" /\ axWho = "contrast" /\ scanResult.error # "none"
        /\ axPc' = "idle")
       => (~contrastResult'.success /\ contrastResult'.error # "none")]_vars

\* C37: the result of a runTestSuite call holds only the records of that
\* call: it has at most one rule-engine result and one extra-check result
\* per configured page, and a call that logged no error of its own (its
\* error list is as long as that of an earlier call's result, and the list
\* is only ever appended to) reports success = TRUE.
C37_ResultOfThisCallOnly ==
  \A q, r \in Runs :
     (q < r /\ rpc[q] = "resolved" /\ rpc[r] = "resolved") =>
        /\ Len(rret[r].axeResults) <= nPages
        /\ Len(rret[r].extraResults) <= nPages
        /\ Len(rret[r].errors) = Len(rret[q].errors) => rret[r].success

\* C38: at the end of the scanning phase axeResults[i] and extraResults[i]
\* belong to the same page for every index i, for every page concurrency
\* and every interleaving of the pages' processing.
C38_ResultsAligned ==
  \A r \in Runs :
     rpc[r] = "report" =>
        /\ Len(axeResults) = Len(extraResults)
        /\ \A i \in 1..Len(axeResults) :
              axeResults[i].page = extraResults[i].page

\* C40: isRunning is TRUE exactly while a runTestSuite call is executing
\* its phases, under any interleaving of runTestSuite and stop() calls, and
\* at most one run is active on the engine at a time.
C40_IsRunningWhileActive ==
  /\ isRunning <=> (\E r \in Runs : Active(r))
  /\ Cardinality({r \in Runs : Active(r)}) <= 1

====
